---------------------------- MODULE Spec2Model ----------------------------
(***************************************************************************)
(* AeroMediaService: the watch-folder scanner (core/monitor.py), the work  *)
(* queue (queue.Queue created in app.py) and the upload worker             *)
(* (core/uploader.py) with the transport and notifier calls it makes.      *)
(*                                                                         *)
(* Two specifications share the variables:                                 *)
(*   Spec        the pipeline as app.py wires it: the queue starts empty   *)
(*               and only MonitorThread.run puts Jobs on it;               *)
(*   WorkerSpec  UploaderThread on its own: the queue handed to the        *)
(*               constructor already holds Jobs, with or without a Kunde.  *)
(***************************************************************************)
EXTENDS Integers, Sequences, FiniteSets, TLC

(***************************************************************************)
(* Bounds                                                                  *)
(***************************************************************************)
\* number of directories in the watch folder
NumDirs == 2
\* number of concurrent scans over the same watch folder
NumScanners == 2
\* number of calls of UploaderThread.stop()
MaxStops == 1
\* number of Jobs preloaded on the queue in WorkerSpec
MaxPreload == 2
\* number of clock seconds, and of archive_directory calls for directories
\* of one base name, in ArchiveSpec
MaxClock == 2
MaxArchiveCalls == 4
\* number of files of a directory and size of a file in TransportSpec; sizes
\* are counted in units of 4 MiB
MaxFiles == 2
MaxFileSize == 5
\* number of files of a directory in PoolSpec
MaxPoolFiles == 4
\* operating-system errors injected into the scan loop in WatcherSpec
MaxOsFaults == 2
\* changes of the selected cloud service in SwapSpec
MaxSwaps == 1
\* the presses of the monitoring button that start monitoring
MaxStartRequests == 2

\* dropbox_client.CHUNK_SIZE, 8 MiB
CHUNK_SIZE == 2
\* CustomApiClient.max_parallel_uploads
max_parallel_uploads == 3

Dirs == 1..NumDirs
Scanners == 1..NumScanners

(***************************************************************************)
(* Data                                                                    *)
(***************************************************************************)
\* contents of a ready marker after read().strip():
\*   "empty"   nothing                     "valid"   a JSON object with all fields
\*   "partial" a JSON object, no kunde_id  "invalid" not JSON
MarkerContents == {"empty", "valid", "partial", "invalid"}

\* fields of the dataclass Kunde
KundeFields ==
    {"customer_number", "first_name", "last_name", "email", "phone",
     "handcam_foto", "handcam_video", "outside_foto", "outside_video",
     "ist_bezahlt_handcam_foto", "ist_bezahlt_handcam_video",
     "ist_bezahlt_outside_foto", "ist_bezahlt_outside_video"}

\* keyword arguments MonitorThread.run passes to Kunde(...)
MonitorKundeKwargs ==
    {"kunde_id", "email", "vorname", "nachname", "telefon", "foto", "video"}

\* the attributes UploaderThread.run reads in its SMS error handler
SmsHandlerAttrs == {"vorname", "nachname"}

\* a customer as the worker sees it: None or a Kunde with email and phone
NoKunde == [present |-> FALSE, email |-> "", phone |-> ""]
Kunden ==
    {NoKunde} \cup
    {[present |-> TRUE, email |-> "mail", phone |-> "tel"],
     [present |-> TRUE, email |-> "mail", phone |-> ""],
     [present |-> TRUE, email |-> "", phone |-> "tel"]}

\* items of the queue: the sentinel None or a Job dict
Sentinel == [sentinel |-> TRUE, dir_path |-> 0, kunde |-> NoKunde]
Job(d, k) == [sentinel |-> FALSE, dir_path |-> d, kunde |-> k]

\* the error text of the Exception raised by UploaderThread.run when
\* upload_directory returns False
GenericUploadError == <<"Upload-Funktion des Clients meldete einen Fehler.">>

\* the text of the Exception raised for a non-200 response
HttpErrorText(status, body) == <<"HTTP", status, body>>

\* the non-200 responses the server is modelled to give
HttpErrors == [status : {"500"}, body : {"Internal Server Error"}]


(***************************************************************************)
(* State                                                                   *)
(***************************************************************************)
VARIABLES
    \* file system: where each directory is, and its two marker files
    loc, ready, inprog, content,
    \* settings: archive_path is set; monitor_path is set and is a directory
    archive_path_set, path_ok,
    \* the operating-system errors that may still strike the scan loops
    os_faults,
    \* queue.Queue shared by the threads
    queue,
    \* UploaderThread: position in run(), _is_running, and the locals of run()
    w_pc, w_running, w_item, w_local_dir, w_kunde, w_share_link, w_exc, w_break,
    \* the finally block of the iteration run() is in has done its cleanup:
    \* both progress bars reset, task_done(), the waiting status
    w_cleanup,
    \* CustomApiClient._last_customer_url (0 is None, d the URL of Job d)
    last_customer_url,
    \* UploaderThread.client, the transport that resolved the link of the Job
    \* in hand, and the changes of the selected service still to come
    w_client, link_client, client_swaps,
    \* MainWindow: the setting selected_cloud_service, active_cloud_client,
    \* the connection status of each client, whether monitor_path is set,
    \* and whether monitor_thread has been started
    selected_cloud, active_cloud_client, is_connected, monitor_path_set,
    monitor_started,
    \* MainWindow: before or after auto_connect_and_start, and the presses
    \* of the monitoring button still to come
    gui_pc, start_requests,
    \* per scan loop: the settings it read at the head of its iteration are
    \* the ones last saved
    m_cfg_seen,
    \* the caller of UploaderThread.stop(): position in stop(), calls made
    stop_pc, stops,
    \* MonitorThread (one per scan loop): position in run(), _is_running,
    \* the rest of the os.listdir result, and the locals dir_name,
    \* kundendaten and kunde
    m_pc, m_running, m_list, m_dir, m_kundendaten, m_kunde,
    \* per scan loop: stop() has been called on its MonitorThread
    m_stopped,
    \* the items get() has returned, and the archive_directory calls made
    \* for each directory
    taken, archive_log,
    \* the transport and notifier calls of the loop iteration run() is in
    upload_log, mail_log, sms_log,
    \* per directory, the scans that renamed its marker and that put its Job
    put_log, rename_log,
    \* per directory, the scans whose os.rename of its marker raised
    rename_failed,
    \* per scan loop, the directory whose marker the value of kundendaten
    \* was read from (0: none), and per directory that value at its put
    m_kd_from, put_from,
    \* archive_directory on directories of one base name: int(time.time()),
    \* the calls made, and per bucket what lies at dir_name and dir_name_<t>
    a_clock, a_calls, a_tree,
    \* one upload_directory call of a transport: the transport, the sizes in
    \* files_to_upload, the position in the call, the index of the file in
    \* hand, bytes_uploaded (uploaded_counter['bytes']), and the result
    t_kind, t_files, t_pc, t_idx, t_bytes, t_ret,
    \* _upload_large_file: f.tell(), cursor.offset, the chunks sent
    t_tell, t_cursor, t_chunks,
    \* the upload_progress_total signals emitted
    t_log,
    \* CustomApiClient: the state of each future, the answer to each
    \* registration, the futures as_completed has handed out, and whether
    \* _wait_for_completion was called
    t_future, t_reg, t_seen, t_polled, t_cur, t_order,
    \* _wait_for_completion: elapsed, the status reads made inside the loop
    \* and after it, the answer to the last read, and the value returned
    p_elapsed, p_reads, p_final, p_last, p_url

fsVars == <<loc, ready, inprog, content>>
cfgVars == <<archive_path_set, path_ok, os_faults>>
workerVars == <<w_pc, w_running, w_item, w_local_dir, w_kunde, w_share_link,
                w_exc, w_break>>
stopVars == <<stop_pc, stops>>
monitorVars ==
    <<m_pc, m_running, m_list, m_dir, m_kundendaten, m_kunde, m_stopped>>
histVars == <<taken, archive_log, upload_log, mail_log, sms_log>>
scanHistVars == <<put_log, rename_log, rename_failed>>
clientVars == <<w_client, link_client, client_swaps>>
provVars == <<m_kd_from, put_from>>
guiVars == <<selected_cloud, active_cloud_client, is_connected,
             monitor_path_set, monitor_started, gui_pc, start_requests,
             m_cfg_seen>>
pipeVars == <<fsVars, cfgVars, queue, workerVars, w_cleanup,
              last_customer_url, clientVars, guiVars, stopVars, monitorVars,
              histVars, scanHistVars, provVars>>
archVars == <<a_clock, a_calls, a_tree>>
callVars == <<t_kind, t_files, t_pc, t_idx, t_bytes, t_ret>>
chunkVars == <<t_tell, t_cursor, t_chunks>>
poolVars == <<t_future, t_reg, t_seen, t_polled, t_cur, t_order>>
pollVars == <<p_elapsed, p_reads, p_final, p_last, p_url>>
xferVars == <<callVars, chunkVars, t_log, poolVars, pollVars>>
unitVars == <<archVars, xferVars>>
vars == <<pipeVars, unitVars>>

NoLink == [url |-> 0, short |-> FALSE]
NoExc == <<>>

(***************************************************************************)
(* CustomApiClient                                                         *)
(***************************************************************************)
\* what the server and the file system do during one upload_directory call
TransportOutcomes ==
    [kind : {"not_connected", "no_files", "completed", "timeout_url",
             "timeout_none", "os_error"}, status : {""}, body : {""}]
    \cup
    [kind : {"init_error", "file_error"},
     status : {e.status : e \in HttpErrors}, body : {e.body : e \in HttpErrors}]

\* the text the transport raises or logs for an outcome
TransportErrorText(o) ==
    IF o.kind \in {"init_error", "file_error"}
    THEN HttpErrorText(o.status, o.body)
    ELSE IF o.kind = "os_error" THEN <<"OSError">> ELSE NoExc

\* CustomApiClient.upload_directory: ret is what the caller gets, exc the
\* exception that leaves the call, logged the error text the client logged
\* and swallowed, last the new _last_customer_url
UploadDirectory(o, d, last) ==
    CASE o.kind = "not_connected" ->
            [ret |-> "false", exc |-> NoExc, logged |-> NoExc, last |-> last]
      [] o.kind = "os_error" ->
            [ret |-> "raise", exc |-> TransportErrorText(o), logged |-> NoExc,
             last |-> last]
      [] o.kind = "no_files" ->
            [ret |-> "true", exc |-> NoExc, logged |-> NoExc, last |-> last]
      [] o.kind \in {"init_error", "file_error"} ->
            [ret |-> "false", exc |-> NoExc, logged |-> TransportErrorText(o),
             last |-> last]
      [] o.kind \in {"completed", "timeout_url"} ->
            [ret |-> "true", exc |-> NoExc, logged |-> NoExc, last |-> d]
      [] o.kind = "timeout_none" ->
            [ret |-> "true", exc |-> NoExc, logged |-> NoExc, last |-> 0]

\* LinkShortener.shorten as get_shareable_link uses it: the short form of
\* the URL when the shortener answered, else the long URL
Shorten(url, shortOk) == [url |-> url, short |-> shortOk]

\* DropboxClient.get_shareable_link: the shortened link of the directory, or
\* None when not connected or when the API raises
DropboxShareableLink(d, linkOk, shortOk) ==
    IF linkOk THEN Shorten(d, shortOk) ELSE NoLink

\* CustomApiClient.get_shareable_link
GetShareableLink(last, shortOk) ==
    IF last = 0 THEN NoLink ELSE Shorten(last, shortOk)

(***************************************************************************)
(* UploaderThread.archive_directory                                        *)
(***************************************************************************)
\* fs is what the file system does: "ok", "mkdir_fail" or "move_fail"
FsOutcomes == {"ok", "mkdir_fail", "move_fail"}

ArchiveResult(d, fs) ==
    IF ~archive_path_set THEN "unconfigured"
    ELSE IF fs = "mkdir_fail" THEN "mkdir_failed"
    ELSE IF fs = "move_fail" \/ loc[d] # "watch" THEN "move_failed"
    ELSE "moved"

\* the file system after archive_directory(d, bucket)
ArchiveLoc(d, bucket, fs) ==
    IF ArchiveResult(d, fs) = "moved" THEN [loc EXCEPT ![d] = bucket] ELSE loc

ArchiveInprog(d, bucket, fs) ==
    IF ArchiveResult(d, fs) = "moved" THEN [inprog EXCEPT ![d] = FALSE]
    ELSE inprog

ArchiveEntry(d, bucket, fs) ==
    [bucket |-> bucket, moved |-> ArchiveResult(d, fs) = "moved"]

\* the buckets below archive_path
ArchiveBuckets == {"erfolg", "fehler"}

\* the names archive_directory can move a directory dir_name to: 0 is
\* dir_name itself, t is dir_name_<t> for the clock second t
ArchiveNames == 0..MaxClock

\* what lies at a name of a bucket: the call whose directory it is (0: the
\* name is free), whether that directory still holds the in-progress
\* marker, and the call whose directory lies inside it under dir_name
NoEntry == [owner |-> 0, marker |-> FALSE, inner |-> 0, inner_marker |-> FALSE]

\* destination_path: dir_name, or dir_name_<int(time.time())> when dir_name
\* exists in the bucket
DestinationPath(tree, b, now) == IF tree[b][0].owner # 0 THEN now ELSE 0

\* shutil.move(local_dir_path, destination_path) for the directory of call
\* k, holding the marker or not: a rename when the destination is free; a
\* move into the destination when that is an existing directory; an Error
\* when the destination already holds an entry dir_name
ShutilMove(tree, b, p, k, m) ==
    IF tree[b][p].owner = 0
    THEN [raised |-> FALSE,
          tree |-> [tree EXCEPT ![b][p].owner = k, ![b][p].marker = m]]
    ELSE IF tree[b][p].inner = 0
    THEN [raised |-> FALSE,
          tree |-> [tree EXCEPT ![b][p].inner = k, ![b][p].inner_marker = m]]
    ELSE [raised |-> TRUE, tree |-> tree]

\* if os.path.exists(processing_marker_path): os.remove(...), the marker
\* looked for directly below destination_path
RemoveMarker(tree, b, p) == [tree EXCEPT ![b][p].marker = FALSE]

\* the lines of archive_directory from destination_path on, for the
\* directory of call k; fs is what the file system does to the move
ArchiveSameName(tree, b, now, k, m, fs) ==
    LET p == DestinationPath(tree, b, now)
        mv == ShutilMove(tree, b, p, k, m)
    IN  IF fs = "move_fail" \/ mv.raised THEN tree
        ELSE RemoveMarker(mv.tree, b, p)

\* one archive_directory call for a directory named dir_name
A_Archive ==
    /\ a_calls < MaxArchiveCalls
    /\ a_calls' = a_calls + 1
    /\ \E b \in ArchiveBuckets, m \in BOOLEAN, fs \in {"ok", "move_fail"} :
         a_tree' = ArchiveSameName(a_tree, b, a_clock, a_calls + 1, m, fs)
    /\ UNCHANGED <<a_clock, pipeVars, xferVars>>

\* the clock reaches the next second
A_Tick ==
    /\ a_clock < MaxClock
    /\ a_clock' = a_clock + 1
    /\ UNCHANGED <<a_calls, a_tree, pipeVars, xferVars>>

ArchiveNext == A_Archive \/ A_Tick

(***************************************************************************)
(* Progress of one upload_directory call                                   *)
(***************************************************************************)
\* the transports behind BaseClient
Transports == {"dropbox", "custom"}

\* the lists of file sizes os.walk and os.path.getsize can give
FileLists == UNION {[1..n -> 0..MaxFileSize] : n \in 0..MaxFiles}

RECURSIVE SumSeq(_)
SumSeq(q) == IF q = <<>> THEN 0 ELSE Head(q) + SumSeq(Tail(q))

\* total_size
TotalSize(files) == SumSeq(files)

\* the pairs (bytes, total) with total <= 200 for which the double-precision
\* product (bytes / total) * 100 lies below the integer that the exact
\* quotient 100 * bytes / total is, e.g. (29 / 50) * 100 =
\* 57.99999999999999; scaling both numbers by a power of two changes nothing
FloatShortPairs ==
    {<<29, 50>>, <<29, 100>>, <<57, 100>>, <<58, 100>>, <<87, 150>>,
     <<58, 200>>, <<114, 200>>, <<116, 200>>}

\* int((bytes / total) * 100) in double precision, for total <= 200
Percent(bytes, total) ==
    IF <<bytes, total>> \in FloatShortPairs
    THEN ((bytes * 100) \div total) - 1
    ELSE (bytes * 100) \div total

\* signals.upload_progress_total.emit(total_progress, bytes, total)
EmitTotal(log, bytes, total) ==
    Append(log, <<Percent(bytes, total), bytes, total>>)

\* the collection of files_to_upload and what follows it before the first
\* file: not connected; nothing to do; or on to the files
T_Collect ==
    /\ t_pc = "collect"
    /\ \E connected \in BOOLEAN :
         IF ~connected
         THEN /\ t_ret' = "false"
              /\ t_pc' = "done"
              /\ UNCHANGED <<t_log, t_idx>>
         ELSE IF t_kind = "dropbox" /\ TotalSize(t_files) = 0
         THEN /\ t_log' = Append(t_log, <<100, 0, 0>>)
              /\ t_ret' = "true"
              /\ t_pc' = "done"
              /\ UNCHANGED t_idx
         ELSE IF t_kind = "custom" /\ t_files = <<>>
         THEN /\ t_ret' = "true"
              /\ t_pc' = "done"
              /\ UNCHANGED <<t_log, t_idx>>
         ELSE /\ t_pc' = IF t_kind = "dropbox" THEN "file" ELSE "init"
              /\ t_idx' = 1
              /\ UNCHANGED <<t_log, t_ret>>
    /\ UNCHANGED <<t_kind, t_files, t_bytes, chunkVars, poolVars, pipeVars,
                   archVars>>
    /\ UNCHANGED pollVars

\* a large-file progress that leaves out the bytes of the files before
CurrentTotalBytes_NoBase(base_bytes_uploaded, bytes_sent) == bytes_sent

\* current_total_bytes = base_bytes_uploaded + bytes_sent
CurrentTotalBytes(base_bytes_uploaded, bytes_sent) ==
    base_bytes_uploaded + bytes_sent

\* DropboxClient.upload_directory, one turn of the for loop up to the first
\* request of the file: the loop ends; a file of at most CHUNK_SIZE goes in
\* one files_upload, its progress emitted before bytes_uploaded is raised; a
\* larger one starts a session with its first CHUNK_SIZE bytes. A request
\* that raises ends the call with False.
D_File ==
    /\ t_kind = "dropbox"
    /\ t_pc = "file"
    /\ IF t_idx > Len(t_files)
       THEN /\ t_ret' = "true"
            /\ t_pc' = "done"
            /\ UNCHANGED <<t_idx, t_bytes, chunkVars, t_log>>
       ELSE \E ok \in BOOLEAN :
         LET file_size == t_files[t_idx]
             total_size == TotalSize(t_files) IN
         IF ~ok
         THEN /\ t_ret' = "false"
              /\ t_pc' = "done"
              /\ UNCHANGED <<t_idx, t_bytes, chunkVars, t_log>>
         ELSE IF file_size <= CHUNK_SIZE
         THEN /\ t_log' = EmitTotal(t_log, t_bytes, total_size)
              /\ t_bytes' = t_bytes + file_size
              /\ t_idx' = t_idx + 1
              /\ t_chunks' = <<>>
              /\ UNCHANGED <<t_pc, t_ret, t_tell, t_cursor>>
         ELSE /\ t_tell' = CHUNK_SIZE
              /\ t_cursor' = CHUNK_SIZE
              /\ t_chunks' = <<[offset |-> 0, size |-> CHUNK_SIZE]>>
              /\ t_log' = EmitTotal(t_log,
                              CurrentTotalBytes(t_bytes, CHUNK_SIZE),
                              total_size)
              /\ t_pc' = "append"
              /\ UNCHANGED <<t_idx, t_bytes, t_ret>>
    /\ UNCHANGED <<t_kind, t_files, poolVars, pipeVars, archVars>>
    /\ UNCHANGED pollVars

\* a loop that also appends when exactly CHUNK_SIZE bytes are left
MoreChunks_Inclusive(file_size, tell) == (file_size - tell) >= CHUNK_SIZE

\* while (file_size - f.tell()) > CHUNK_SIZE
MoreChunks(file_size, tell) == (file_size - tell) > CHUNK_SIZE

\* _upload_large_file, one turn of the while loop:
\* files_upload_session_append_v2(f.read(CHUNK_SIZE), cursor)
D_Append ==
    /\ t_kind = "dropbox"
    /\ t_pc = "append"
    /\ MoreChunks(t_files[t_idx], t_tell)
    /\ \E ok \in BOOLEAN :
         IF ~ok
         THEN /\ t_ret' = "false"
              /\ t_pc' = "done"
              /\ UNCHANGED <<chunkVars, t_log>>
         ELSE /\ t_chunks' = Append(t_chunks,
                                 [offset |-> t_cursor, size |-> CHUNK_SIZE])
              /\ t_tell' = t_tell + CHUNK_SIZE
              /\ t_cursor' = t_tell + CHUNK_SIZE
              /\ t_log' = EmitTotal(t_log,
                              CurrentTotalBytes(t_bytes, t_tell + CHUNK_SIZE),
                              TotalSize(t_files))
              /\ UNCHANGED <<t_pc, t_ret>>
    /\ UNCHANGED <<t_kind, t_files, t_idx, t_bytes, poolVars, pipeVars,
                   archVars>>
    /\ UNCHANGED pollVars

\* _upload_large_file after the loop: files_upload_session_finish with the
\* rest of the file; then bytes_uploaded += file_size
D_Finish ==
    /\ t_kind = "dropbox"
    /\ t_pc = "append"
    /\ ~MoreChunks(t_files[t_idx], t_tell)
    /\ \E ok \in BOOLEAN :
         IF ~ok
         THEN /\ t_ret' = "false"
              /\ t_pc' = "done"
              /\ UNCHANGED <<chunkVars, t_log, t_idx, t_bytes>>
         ELSE /\ t_chunks' = Append(t_chunks,
                                 [offset |-> t_cursor,
                                  size |-> t_files[t_idx] - t_tell])
              /\ t_tell' = t_files[t_idx]
              /\ t_log' = EmitTotal(t_log,
                              CurrentTotalBytes(t_bytes, t_files[t_idx]),
                              TotalSize(t_files))
              /\ t_bytes' = t_bytes + t_files[t_idx]
              /\ t_idx' = t_idx + 1
              /\ t_pc' = "file"
              /\ UNCHANGED <<t_cursor, t_ret>>
    /\ UNCHANGED <<t_kind, t_files, poolVars, pipeVars, archVars>>
    /\ UNCHANGED pollVars

\* what the servers answer to the requests of one _upload_file_direct:
\* all well, no upload token, the blob PUT refused, or the PUT accepted and
\* the registration refused
FileOutcomes == {"ok", "token_fail", "put_fail", "register_fail"}

\* the indices of files_to_upload
FileIds == DOMAIN t_files

\* the files a thread of the executor is working on: inside the request
\* sequence, waiting for progress_lock, or inside the progress block
InPool ==
    {i \in DOMAIN t_future :
         t_future[i] \in {"running", "registered", "locked"}}

\* the files inside their presigned-url / PUT / register sequence
InRequests == {i \in DOMAIN t_future : t_future[i] = "running"}

\* the threads inside the with self.progress_lock block
LockHolders == {i \in DOMAIN t_future : t_future[i] = "locked"}

\* the futures that have a result or an exception
Completed == {i \in DOMAIN t_future : t_future[i] \in {"ok", "raised"}}

\* self._initialize_direct_session(files_to_upload, kunde); an exception
\* ends the call with False; then every file is submitted to the executor
C_Init ==
    /\ t_kind = "custom"
    /\ t_pc = "init"
    /\ \E ok \in BOOLEAN :
         IF ok
         THEN /\ t_future' = [i \in FileIds |-> "queued"]
              /\ t_reg' = [i \in FileIds |-> "none"]
              /\ t_cur' = [i \in FileIds |-> 0]
              /\ t_pc' = "pool"
              /\ UNCHANGED t_ret
         ELSE /\ t_ret' = "false"
              /\ t_pc' = "done"
              /\ UNCHANGED <<t_future, t_reg, t_cur>>
    /\ UNCHANGED <<t_kind, t_files, t_idx, t_bytes, chunkVars, t_log, t_seen,
                   t_polled, t_order, pipeVars, archVars>>
    /\ UNCHANGED pollVars

\* an executor that starts a thread for every submitted file
PoolHasIdleThread_Unbounded(busy) == TRUE

\* ThreadPoolExecutor(max_workers=self.max_parallel_uploads): a queued file
\* is taken when fewer than max_workers threads are busy
PoolHasIdleThread(busy) == Cardinality(busy) < max_parallel_uploads

\* a thread of the executor takes the file submitted first among those
\* waiting; the executor goes on doing so while the with block is being
\* left with an exception (shutdown(wait=True) cancels nothing)
C_Start(i) ==
    /\ t_kind = "custom"
    /\ t_pc \in {"pool", "raised"}
    /\ t_future[i] = "queued"
    /\ \A j \in FileIds : j < i => t_future[j] # "queued"
    /\ PoolHasIdleThread(InPool)
    /\ t_future' = [t_future EXCEPT ![i] = "running"]
    /\ UNCHANGED <<callVars, chunkVars, t_log, t_reg, t_seen, t_polled,
                   t_cur, t_order, pipeVars, archVars>>
    /\ UNCHANGED pollVars

\* an _upload_file_direct that goes on when the registration was refused
RegisterRaises_Silent(register_ok) == FALSE

\* if not register_response.ok: raise Exception(...)
RegisterRaises(register_ok) == ~register_ok

\* _upload_file_direct gets as far as its progress block
ReachesProgress(outcome) ==
    /\ outcome \notin {"token_fail", "put_fail"}
    /\ ~RegisterRaises(outcome # "register_fail")

\* _upload_file_direct for file i, from the token request to the
\* registration: it raises, or goes on to the progress block
C_Requests(i) ==
    /\ t_kind = "custom"
    /\ t_pc \in {"pool", "raised"}
    /\ t_future[i] = "running"
    /\ \E outcome \in FileOutcomes :
         /\ t_reg' = [t_reg EXCEPT ![i] =
                IF outcome = "ok" THEN "ok"
                ELSE IF outcome = "register_fail" THEN "failed" ELSE "none"]
         /\ t_future' = [t_future EXCEPT ![i] =
                IF ReachesProgress(outcome) THEN "registered" ELSE "raised"]
    /\ UNCHANGED <<callVars, chunkVars, t_log, t_seen, t_polled, t_cur,
                   t_order, pipeVars, archVars>>
    /\ UNCHANGED pollVars

\* a progress block that is entered without the lock
ProgressLockFree_NoLock(holders) == TRUE

\* with self.progress_lock: entered when no other thread is inside
ProgressLockFree(holders) == holders = {}

\* with self.progress_lock: uploaded_counter['bytes'] += file_size;
\* current_total_bytes = uploaded_counter['bytes']
C_Lock(i) ==
    /\ t_kind = "custom"
    /\ t_pc \in {"pool", "raised"}
    /\ t_future[i] = "registered"
    /\ ProgressLockFree(LockHolders)
    /\ t_bytes' = t_bytes + t_files[i]
    /\ t_cur' = [t_cur EXCEPT ![i] = t_bytes + t_files[i]]
    /\ t_future' = [t_future EXCEPT ![i] = "locked"]
    /\ UNCHANGED <<t_kind, t_files, t_pc, t_idx, t_ret, chunkVars, t_log,
                   t_reg, t_seen, t_polled, t_order, pipeVars, archVars>>
    /\ UNCHANGED pollVars

\* the rest of the progress block: the percentage is computed (a division
\* by total_job_size) and emitted, the lock is released, return True
C_Emit(i) ==
    /\ t_kind = "custom"
    /\ t_pc \in {"pool", "raised"}
    /\ t_future[i] = "locked"
    /\ IF TotalSize(t_files) = 0
       THEN /\ t_future' = [t_future EXCEPT ![i] = "raised"]
            /\ UNCHANGED <<t_log, t_order>>
       ELSE /\ t_future' = [t_future EXCEPT ![i] = "ok"]
            /\ t_log' = EmitTotal(t_log, t_cur[i], TotalSize(t_files))
            /\ t_order' = Append(t_order, i)
    /\ UNCHANGED <<callVars, chunkVars, t_reg, t_seen, t_polled, t_cur,
                   pipeVars, archVars>>
    /\ UNCHANGED pollVars

\* for future in as_completed(futures): future.result() returns, or raises
\* and the loop is left with the exception
C_Collect(i) ==
    /\ t_kind = "custom"
    /\ t_pc = "pool"
    /\ i \in Completed \ t_seen
    /\ IF t_future[i] = "ok"
       THEN /\ t_seen' = t_seen \cup {i}
            /\ t_pc' = IF t_seen \cup {i} = FileIds THEN "poll" ELSE "pool"
       ELSE /\ t_pc' = "raised"
            /\ UNCHANGED t_seen
    /\ UNCHANGED <<t_kind, t_files, t_idx, t_bytes, t_ret, chunkVars, t_log,
                   t_future, t_reg, t_polled, t_cur, t_order, pipeVars,
                   archVars>>
    /\ UNCHANGED pollVars

\* the with block is left with the exception: the executor waits for every
\* submitted file, then except Exception: return False
C_Shutdown ==
    /\ t_kind = "custom"
    /\ t_pc = "raised"
    /\ Completed = FileIds
    /\ t_ret' = "false"
    /\ t_pc' = "done"
    /\ UNCHANGED <<t_kind, t_files, t_idx, t_bytes, chunkVars, t_log,
                   poolVars, pipeVars, archVars>>
    /\ UNCHANGED pollVars

max_wait_time == 10
poll_interval == 2

\* the answers to GET /upload/status/{sessionId}: status completed, an ok
\* answer with another status, or an answer that is not ok or a raised
\* exception
StatusAnswers == {"completed", "pending", "failed"}

\* result.get("customer_url")
CustomerUrls == {"url", "None"}

PollLoopContinues_Unbounded(elapsed) == TRUE

\* while elapsed < max_wait_time
PollLoopContinues(elapsed) == elapsed < max_wait_time

\* customer_url = self._wait_for_completion(session_id): one status read of
\* the loop; completed returns customer_url and upload_directory returns
\* True, any other answer goes on to the sleep
C_StatusRead ==
    /\ t_kind = "custom"
    /\ t_pc = "poll"
    /\ PollLoopContinues(p_elapsed)
    /\ t_polled' = TRUE
    /\ p_reads' = p_reads + 1
    /\ \E answer \in StatusAnswers :
         /\ p_last' = answer
         /\ IF answer = "completed"
            THEN /\ \E u \in CustomerUrls : p_url' = u
                 /\ t_ret' = "true"
                 /\ t_pc' = "done"
            ELSE /\ t_pc' = "sleep"
                 /\ UNCHANGED <<p_url, t_ret>>
    /\ UNCHANGED <<t_kind, t_files, t_idx, t_bytes, chunkVars, t_log,
                   t_future, t_reg, t_seen, t_cur, t_order, p_elapsed,
                   p_final, pipeVars, archVars>>

\* time.sleep(poll_interval); elapsed += poll_interval
C_Sleep ==
    /\ t_kind = "custom"
    /\ t_pc = "sleep"
    /\ p_elapsed' = p_elapsed + poll_interval
    /\ t_pc' = "poll"
    /\ UNCHANGED <<t_kind, t_files, t_idx, t_bytes, t_ret, chunkVars, t_log,
                   poolVars, p_reads, p_final, p_last, p_url, pipeVars,
                   archVars>>

\* the loop is left on the timeout: one more status read; an ok answer
\* returns its customer_url whatever the status, any other answer or an
\* exception returns None; upload_directory returns True
C_FinalRead ==
    /\ t_kind = "custom"
    /\ t_pc = "poll"
    /\ ~PollLoopContinues(p_elapsed)
    /\ t_polled' = TRUE
    /\ p_final' = p_final + 1
    /\ \E answer \in StatusAnswers :
         /\ p_last' = answer
         /\ IF answer = "failed"
            THEN p_url' = "None"
            ELSE \E u \in CustomerUrls : p_url' = u
    /\ t_ret' = "true"
    /\ t_pc' = "done"
    /\ UNCHANGED <<t_kind, t_files, t_idx, t_bytes, chunkVars, t_log,
                   t_future, t_reg, t_seen, t_cur, t_order, p_elapsed,
                   p_reads, pipeVars, archVars>>

TransportNext ==
    \/ T_Collect \/ D_File \/ D_Append \/ D_Finish
    \/ C_Init \/ C_Shutdown \/ C_StatusRead \/ C_Sleep \/ C_FinalRead
    \/ \E i \in FileIds :
         C_Start(i) \/ C_Requests(i) \/ C_Lock(i) \/ C_Emit(i) \/ C_Collect(i)

(***************************************************************************)
(* Notifiers                                                               *)
(***************************************************************************)
\* what a notifier call does: it sends, it fails and returns, or it raises
NotifyOutcomes == {"sent", "failed", "raise"}

\* reading attribute a of a Kunde object: AttributeError unless a is a field
GetAttrRaises(a) == a \notin KundeFields

\* a dataclass that takes the keywords it is given
KundeInitRaises_Accepts(kwargs) == FALSE

\* Kunde(**kwargs): TypeError unless every keyword is a field of the dataclass
KundeInitRaises(kwargs) == ~(kwargs \subseteq KundeFields)

\* the SMS error handler of UploaderThread.run formats kunde.vorname and
\* kunde.nachname: it raises when one of them is no attribute of Kunde
SmsHandlerRaises == \E a \in SmsHandlerAttrs : GetAttrRaises(a)

(***************************************************************************)
(* UploaderThread.stop                                                     *)
(***************************************************************************)
\* self._is_running = False
Stop_Flag ==
    /\ stop_pc = "idle"
    /\ stops < MaxStops
    /\ w_running' = FALSE
    /\ stop_pc' = "put"
    /\ stops' = stops + 1
    /\ UNCHANGED <<fsVars, cfgVars, queue, w_pc, w_item, w_local_dir, w_kunde,
                   w_share_link, w_exc, w_break, last_customer_url,
                   monitorVars, histVars, scanHistVars>>
    /\ UNCHANGED w_cleanup
    /\ UNCHANGED unitVars
    /\ UNCHANGED clientVars
    /\ UNCHANGED guiVars
    /\ UNCHANGED provVars

\* self.upload_queue.put(None)
Stop_Put ==
    /\ stop_pc = "put"
    /\ queue' = Append(queue, Sentinel)
    /\ stop_pc' = "idle"
    /\ UNCHANGED <<fsVars, cfgVars, workerVars, stops, last_customer_url,
                   monitorVars, histVars, scanHistVars>>
    /\ UNCHANGED w_cleanup
    /\ UNCHANGED unitVars
    /\ UNCHANGED clientVars
    /\ UNCHANGED guiVars
    /\ UNCHANGED provVars

(***************************************************************************)
(* UploaderThread.run                                                      *)
(***************************************************************************)
\* self._is_running = True
W_Start ==
    /\ w_pc = "init"
    /\ w_running' = TRUE
    /\ w_pc' = "loop"
    /\ UNCHANGED <<fsVars, cfgVars, queue, w_item, w_local_dir, w_kunde,
                   w_share_link, w_exc, w_break, last_customer_url, stopVars,
                   monitorVars, histVars, scanHistVars>>
    /\ UNCHANGED w_cleanup
    /\ UNCHANGED unitVars
    /\ UNCHANGED clientVars
    /\ UNCHANGED guiVars
    /\ UNCHANGED provVars

\* while self._is_running: local_dir_path = None; kunde = None
W_Loop ==
    /\ w_pc = "loop"
    /\ IF w_running
       THEN /\ w_pc' = "get"
            /\ w_local_dir' = 0
            /\ w_kunde' = NoKunde
            /\ w_share_link' = NoLink
            /\ w_exc' = NoExc
            /\ upload_log' = <<>>
            /\ mail_log' = <<>>
            /\ sms_log' = <<>>
            /\ link_client' = "none"
            /\ w_cleanup' = FALSE
       ELSE /\ w_pc' = "exited"
            /\ UNCHANGED <<w_local_dir, w_kunde, w_share_link, w_exc,
                           upload_log, mail_log, sms_log, link_client,
                           w_cleanup>>
    /\ UNCHANGED <<fsVars, cfgVars, queue, w_running, w_item, w_break,
                   last_customer_url, w_client, client_swaps, stopVars,
                   monitorVars, taken, archive_log, scanHistVars>>
    /\ UNCHANGED unitVars
    /\ UNCHANGED guiVars
    /\ UNCHANGED provVars

\* a queue that hands out the item put last
QueueGet_Lifo(q) == [item |-> q[Len(q)], rest |-> SubSeq(q, 1, Len(q) - 1)]

\* queue.Queue.get on a non-empty queue: the item put first, and the rest
QueueGet(q) == [item |-> Head(q), rest |-> Tail(q)]

\* current_queue_item = self.upload_queue.get()
W_Get ==
    /\ w_pc = "get"
    /\ queue # <<>>
    /\ w_item' = QueueGet(queue).item
    /\ queue' = QueueGet(queue).rest
    /\ taken' = Append(taken, QueueGet(queue).item)
    /\ w_pc' = "check"
    /\ UNCHANGED <<fsVars, cfgVars, w_running, w_local_dir, w_kunde,
                   w_share_link, w_exc, w_break, last_customer_url, stopVars,
                   monitorVars, upload_log, archive_log, mail_log, sms_log,
                   scanHistVars>>
    /\ UNCHANGED w_cleanup
    /\ UNCHANGED unitVars
    /\ UNCHANGED clientVars
    /\ UNCHANGED guiVars
    /\ UNCHANGED provVars

\* a run() that leaves its loop on the flag alone
BreakCondition_FlagOnly(item, running) == ~running

\* the break condition of run()
BreakCondition(item, running) == item.sentinel \/ ~running

\* if current_queue_item is None or not self._is_running: break
\* else take dir_path and kunde from the item
W_Check ==
    /\ w_pc = "check"
    /\ IF BreakCondition(w_item, w_running)
       THEN /\ w_break' = TRUE
            /\ w_pc' = "finally"
            /\ UNCHANGED <<w_local_dir, w_kunde>>
       ELSE /\ w_local_dir' = w_item.dir_path
            /\ w_kunde' = w_item.kunde
            /\ w_pc' = "upload"
            /\ UNCHANGED w_break
    /\ UNCHANGED <<fsVars, cfgVars, queue, w_running, w_item, w_share_link,
                   w_exc, last_customer_url, stopVars, monitorVars, histVars,
                   scanHistVars>>
    /\ UNCHANGED w_cleanup
    /\ UNCHANGED unitVars
    /\ UNCHANGED clientVars
    /\ UNCHANGED guiVars
    /\ UNCHANGED provVars

\* the value of the parameter kunde of
\* upload_directory(local_dir_path, remote_base_path, kunde=None) in the
\* call self.client.upload_directory(local_dir_path, remote_path): the call
\* passes two arguments, the parameter takes its default None
UploadCallKunde(job_kunde) == NoKunde

\* no session-init request was made
NotSent == <<"not sent">>

\* upload_directory gets as far as _initialize_direct_session
SessionInitSent(o) == o.kind \notin {"not_connected", "no_files", "os_error"}

\* _initialize_direct_session: metadata = asdict(kunde) if kunde else {}
SessionMetadata(kunde) ==
    IF kunde.present
    THEN [email |-> kunde.email, phone |-> kunde.phone]
    ELSE <<>>

\* a run() that takes a False from upload_directory for a success
UploadException_NoRaise(r) ==
    IF r.ret = "raise" THEN r.exc ELSE NoExc

\* the exception run() has in hand after upload_directory returned r
UploadException(r) ==
    IF r.ret = "raise" THEN r.exc
    ELSE IF r.ret = "false" THEN GenericUploadError
    ELSE NoExc

\* a run() that looks at the flag when upload_directory returns
AfterUpload_Preemptible(exc) ==
    IF ~w_running THEN "finally"
    ELSE IF exc = NoExc THEN "link" ELSE "except"

\* where run() goes after the upload: on to the link, or with the exception
\* in hand to the except block; the flag is not read
AfterUpload(exc) == IF exc = NoExc THEN "link" ELSE "except"

\* upload_success = self.client.upload_directory(local_dir_path, remote_path)
\* if not upload_success: raise Exception(...)
W_Upload ==
    /\ w_pc = "upload"
    /\ \E o \in TransportOutcomes :
         LET r == UploadDirectory(o, w_local_dir, last_customer_url) IN
         /\ last_customer_url' =
                IF w_client = "custom" THEN r.last ELSE last_customer_url
         /\ upload_log' =
                Append(upload_log,
                       [ret |-> r.ret, cause |-> TransportErrorText(o),
                        client |-> w_client,
                        kunde |-> UploadCallKunde(w_kunde),
                        metadata |->
                            IF SessionInitSent(o)
                            THEN SessionMetadata(UploadCallKunde(w_kunde))
                            ELSE NotSent])
         /\ w_exc' = UploadException(r)
         /\ w_pc' = AfterUpload(UploadException(r))
    /\ UNCHANGED <<fsVars, cfgVars, queue, w_running, w_item, w_local_dir,
                   w_kunde, w_share_link, w_break, stopVars, monitorVars,
                   taken, archive_log, mail_log, sms_log, scanHistVars>>
    /\ UNCHANGED w_cleanup
    /\ UNCHANGED unitVars
    /\ UNCHANGED clientVars
    /\ UNCHANGED guiVars
    /\ UNCHANGED provVars

\* share_link = self.client.get_shareable_link(remote_path)
W_Link ==
    /\ w_pc = "link"
    /\ \E shortOk, linkOk \in BOOLEAN :
         w_share_link' =
             IF w_client = "custom"
             THEN GetShareableLink(last_customer_url, shortOk)
             ELSE DropboxShareableLink(w_local_dir, linkOk, shortOk)
    /\ link_client' = w_client
    /\ w_pc' = "notify"
    /\ UNCHANGED <<fsVars, cfgVars, queue, w_running, w_item, w_local_dir,
                   w_kunde, w_exc, w_break, last_customer_url, w_client,
                   client_swaps, stopVars, monitorVars, histVars,
                   scanHistVars>>
    /\ UNCHANGED w_cleanup
    /\ UNCHANGED unitVars
    /\ UNCHANGED guiVars
    /\ UNCHANGED provVars

\* a run() that notifies without looking at the link
NotifyCondition_NoLinkTest(link, kunde) ==
    kunde.present /\ kunde.email # ""

\* if share_link and kunde and kunde.email
NotifyCondition(link, kunde) ==
    link # NoLink /\ kunde.present /\ kunde.email # ""

\* SmsClient.send_upload_success_sms: no request without a phone number
SmsAttempted(kunde) == kunde.phone # ""

\* the exception that leaves the notification block: one raised by
\* send_upload_success_email, or the one the SMS error handler raises itself
NotifyException(ne, ns) ==
    IF ne = "raise" THEN <<"email">>
    ELSE IF ns = "raise" /\ SmsHandlerRaises THEN <<"AttributeError">>
    ELSE NoExc

\* if share_link and kunde and kunde.email:
\*     self.email_client.send_upload_success_email(dir_name, share_link, ..)
\*     try: asyncio.run(self.sms_client.send_upload_success_sms(..))
\*     except Exception as sms_e: self.log.error(f"... {kunde.vorname} ...")
W_Notify ==
    /\ w_pc = "notify"
    /\ IF NotifyCondition(w_share_link, w_kunde)
       THEN \E ne, ns \in NotifyOutcomes :
              /\ mail_log' =
                     Append(mail_log,
                            [kind |-> "success", outcome |-> ne,
                             url |-> w_share_link.url, text |-> NoExc])
              /\ sms_log' =
                     IF ne = "raise" THEN sms_log
                     ELSE Append(sms_log,
                                 [outcome |-> ns,
                                  attempted |-> SmsAttempted(w_kunde)])
              /\ w_exc' = NotifyException(ne, ns)
              /\ w_pc' = IF NotifyException(ne, ns) = NoExc
                         THEN "archive" ELSE "except"
       ELSE /\ w_pc' = "archive"
            /\ UNCHANGED <<mail_log, sms_log, w_exc>>
    /\ UNCHANGED <<fsVars, cfgVars, queue, w_running, w_item, w_local_dir,
                   w_kunde, w_share_link, w_break, last_customer_url,
                   stopVars, monitorVars, taken, upload_log, archive_log,
                   scanHistVars>>
    /\ UNCHANGED w_cleanup
    /\ UNCHANGED unitVars
    /\ UNCHANGED clientVars
    /\ UNCHANGED guiVars
    /\ UNCHANGED provVars

\* self.archive_directory(local_dir_path, "erfolg")
W_Archive ==
    /\ w_pc = "archive"
    /\ \E fs \in FsOutcomes :
         /\ loc' = ArchiveLoc(w_local_dir, "erfolg", fs)
         /\ inprog' = ArchiveInprog(w_local_dir, "erfolg", fs)
         /\ archive_log' = [archive_log EXCEPT ![w_local_dir] =
                Append(@, ArchiveEntry(w_local_dir, "erfolg", fs))]
    /\ w_pc' = "finally"
    /\ UNCHANGED <<ready, content, cfgVars, queue, w_running, w_item,
                   w_local_dir, w_kunde, w_share_link, w_exc, w_break,
                   last_customer_url, stopVars, monitorVars, taken,
                   upload_log, mail_log, sms_log, scanHistVars>>
    /\ UNCHANGED w_cleanup
    /\ UNCHANGED unitVars
    /\ UNCHANGED clientVars
    /\ UNCHANGED guiVars
    /\ UNCHANGED provVars

\* except Exception as e: if local_dir_path: archive_directory(.., "fehler");
\* self.email_client.send_upload_failure_email(dir_name, str(e))
W_Except ==
    /\ w_pc = "except"
    /\ \E fs \in FsOutcomes :
         /\ loc' = ArchiveLoc(w_local_dir, "fehler", fs)
         /\ inprog' = ArchiveInprog(w_local_dir, "fehler", fs)
         /\ archive_log' = [archive_log EXCEPT ![w_local_dir] =
                Append(@, ArchiveEntry(w_local_dir, "fehler", fs))]
    /\ mail_log' =
           Append(mail_log,
                  [kind |-> "failure", outcome |-> "sent", url |-> 0,
                   text |-> w_exc])
    /\ w_pc' = "finally"
    /\ UNCHANGED <<ready, content, cfgVars, queue, w_running, w_item,
                   w_local_dir, w_kunde, w_share_link, w_exc, w_break,
                   last_customer_url, stopVars, monitorVars, taken,
                   upload_log, sms_log, scanHistVars>>
    /\ UNCHANGED w_cleanup
    /\ UNCHANGED unitVars
    /\ UNCHANGED clientVars
    /\ UNCHANGED guiVars
    /\ UNCHANGED provVars

\* a run() whose except block does not absorb the exception of a Job
LoopExit_OnException(brk, exc) == brk \/ exc # NoExc

\* run() leaves its loop after the try statement: only by the break
LoopExit(brk, exc) == brk

\* finally: if self._is_running: the cleanup
CleanupRuns(running) == running

\* finally: if self._is_running: emit (0, 0, 0) for both bars, task_done(),
\* emit the waiting status; then the loop goes on, or ends after a break
W_Finally ==
    /\ w_pc = "finally"
    /\ w_cleanup' = CleanupRuns(w_running)
    /\ w_pc' = IF LoopExit(w_break, w_exc) THEN "exited" ELSE "loop"
    /\ UNCHANGED <<fsVars, cfgVars, queue, w_running, w_item, w_local_dir,
                   w_kunde, w_share_link, w_exc, w_break, last_customer_url,
                   stopVars, monitorVars, histVars, scanHistVars>>
    /\ UNCHANGED unitVars
    /\ UNCHANGED clientVars
    /\ UNCHANGED guiVars
    /\ UNCHANGED provVars

WorkerNext ==
    \/ W_Start \/ W_Loop \/ W_Get \/ W_Check \/ W_Upload \/ W_Link
    \/ W_Notify \/ W_Archive \/ W_Except \/ W_Finally
    \/ Stop_Flag \/ Stop_Put

(***************************************************************************)
(* MonitorThread.run                                                       *)
(***************************************************************************)
\* the orders in which os.listdir can return the directories in ds
RECURSIVE Listings(_)
Listings(ds) ==
    IF ds = {} THEN {<<>>}
    ELSE UNION {{<<d>> \o l : l \in Listings(ds \ {d})} : d \in ds}

\* os.path.isdir(full_dir_path) and os.path.exists(marker_file_path)
MarkerFound(d) == path_ok /\ loc[d] = "watch" /\ ready[d]

\* the parse block raises: kundendaten is unbound, json.loads fails,
\* int(data.get('kunde_id')) fails, or Kunde(...) rejects its keywords
ParseRaises(kd) ==
    \/ kd = "unbound"
    \/ kd = "invalid"
    \/ kd = "partial"
    \/ kd = "valid" /\ KundeInitRaises(MonitorKundeKwargs)

\* the value of kunde after the parse block when it did not raise
ParsedKunde(kd) ==
    IF kd = "valid"
    THEN [present |-> TRUE, email |-> "mail", phone |-> "tel"]
    ELSE NoKunde

\* self._is_running = True
M_Start(s) ==
    /\ m_pc[s] = "init"
    /\ m_running' = [m_running EXCEPT ![s] = TRUE]
    /\ m_pc' = [m_pc EXCEPT ![s] = "loop"]
    /\ UNCHANGED <<fsVars, cfgVars, queue, workerVars, last_customer_url,
                   stopVars, m_list, m_dir, m_kundendaten, m_kunde, histVars,
                   scanHistVars>>
    /\ UNCHANGED w_cleanup
    /\ UNCHANGED unitVars
    /\ UNCHANGED m_stopped
    /\ UNCHANGED clientVars
    /\ UNCHANGED guiVars
    /\ UNCHANGED provVars

\* what os.listdir(scan_path) does after os.path.isdir(scan_path) held: it
\* lists, it raises FileNotFoundError because the folder has been deleted
\* in between, or it raises another error
ListingOutcomes == {"ok", "deleted", "error"}

\* a loop that an error inside the scan ends
AfterScanError_Fatal == "exited"

\* an exception inside the try block of the iteration is logged by one of
\* the two except clauses; run() goes on after them
AfterScanError == "endscan"

\* a loop that ends when there is no watch folder
LoopTarget_EndsWithoutPath(running, path) ==
    IF ~running \/ ~path THEN "exited" ELSE "scan"

\* while self._is_running: ... if not scan_path or not os.path.isdir(..):
\* where run() goes from the head of the loop: out, to the 60 s wait, or
\* into the scan
LoopTarget(running, path) ==
    IF ~running THEN "exited"
    ELSE IF ~path THEN "to_pause"
    ELSE "scan"

\* the head of the while loop up to os.listdir: monitor_path and
\* scan_interval are read anew
M_Loop(s) ==
    /\ m_pc[s] = "loop"
    /\ IF LoopTarget(m_running[s], path_ok) # "scan"
       THEN /\ m_pc' = [m_pc EXCEPT ![s] = LoopTarget(m_running[s], path_ok)]
            /\ UNCHANGED <<m_list, path_ok, os_faults>>
       ELSE \E lo \in ListingOutcomes :
              IF lo = "ok"
              THEN /\ m_pc' = [m_pc EXCEPT ![s] = "scan"]
                   /\ \E l \in Listings({d \in Dirs : loc[d] = "watch"}) :
                        m_list' = [m_list EXCEPT ![s] = l]
                   /\ UNCHANGED <<path_ok, os_faults>>
              ELSE /\ os_faults > 0
                   /\ os_faults' = os_faults - 1
                   /\ m_pc' = [m_pc EXCEPT ![s] = AfterScanError]
                   /\ path_ok' = (lo # "deleted")
                   /\ UNCHANGED m_list
    /\ m_cfg_seen' = [m_cfg_seen EXCEPT ![s] = TRUE]
    /\ UNCHANGED <<fsVars, archive_path_set, queue, workerVars,
                   last_customer_url, stopVars, m_running, m_dir,
                   m_kundendaten, m_kunde, m_stopped, histVars, scanHistVars>>
    /\ UNCHANGED <<selected_cloud, active_cloud_client, is_connected,
                   monitor_path_set, monitor_started, gui_pc,
                   start_requests>>
    /\ UNCHANGED w_cleanup
    /\ UNCHANGED unitVars
    /\ UNCHANGED clientVars
    /\ UNCHANGED provVars

\* self._mutex.lock(); self._wait_condition.wait(self._mutex, ...): the
\* thread is now waiting; a wakeAll() before this point is not seen
M_Wait(s) ==
    /\ m_pc[s] \in {"to_pause", "to_wait"}
    /\ m_pc' = [m_pc EXCEPT ![s] =
           IF @ = "to_pause" THEN "paused" ELSE "wait"]
    /\ UNCHANGED <<fsVars, cfgVars, queue, workerVars, last_customer_url,
                   stopVars, m_running, m_list, m_dir, m_kundendaten, m_kunde,
                   m_stopped, histVars, scanHistVars>>
    /\ UNCHANGED w_cleanup
    /\ UNCHANGED unitVars
    /\ UNCHANGED clientVars
    /\ UNCHANGED guiVars
    /\ UNCHANGED provVars

\* self._wait_condition.wait(...) returns on its timeout: the interval,
\* or the 60 s of the pause, has passed
M_Wake(s) ==
    /\ m_pc[s] \in {"paused", "wait"}
    /\ m_pc' = [m_pc EXCEPT ![s] = "loop"]
    /\ UNCHANGED <<fsVars, cfgVars, queue, workerVars, last_customer_url,
                   stopVars, m_running, m_list, m_dir, m_kundendaten, m_kunde,
                   m_stopped, histVars, scanHistVars>>
    /\ UNCHANGED w_cleanup
    /\ UNCHANGED unitVars
    /\ UNCHANGED clientVars
    /\ UNCHANGED guiVars
    /\ UNCHANGED provVars

\* for dir_name in os.listdir(scan_path): break when stopped, skip entries
\* without a ready marker (the listing and dir_name are not read again once
\* the for loop is left)
M_Next(s) ==
    /\ m_pc[s] = "scan"
    /\ IF m_list[s] = <<>> \/ ~m_running[s]
       THEN /\ m_pc' = [m_pc EXCEPT ![s] = "endscan"]
            /\ m_list' = [m_list EXCEPT ![s] = <<>>]
            /\ m_dir' = [m_dir EXCEPT ![s] = 0]
       ELSE /\ m_dir' = [m_dir EXCEPT ![s] = Head(m_list[s])]
            /\ m_list' = [m_list EXCEPT ![s] = Tail(m_list[s])]
            /\ m_pc' = [m_pc EXCEPT ![s] =
                   IF MarkerFound(Head(m_list[s])) THEN "read" ELSE "scan"]
    /\ UNCHANGED <<fsVars, cfgVars, queue, workerVars, last_customer_url,
                   stopVars, m_running, m_kundendaten, m_kunde, histVars,
                   scanHistVars>>
    /\ UNCHANGED w_cleanup
    /\ UNCHANGED unitVars
    /\ UNCHANGED m_stopped
    /\ UNCHANGED clientVars
    /\ UNCHANGED guiVars
    /\ UNCHANGED provVars

\* try: kundendaten = marker_file.read().strip()  except Exception: log
M_Read(s) ==
    /\ m_pc[s] = "read"
    /\ \E os_ok \in BOOLEAN :
         /\ ~os_ok => os_faults > 0
         /\ os_faults' = IF os_ok THEN os_faults ELSE os_faults - 1
         /\ m_kundendaten' = [m_kundendaten EXCEPT ![s] =
                IF os_ok /\ MarkerFound(m_dir[s])
                THEN content[m_dir[s]] ELSE @]
         /\ m_kd_from' = [m_kd_from EXCEPT ![s] =
                IF os_ok /\ MarkerFound(m_dir[s]) THEN m_dir[s] ELSE @]
    /\ UNCHANGED put_from
    /\ m_pc' = [m_pc EXCEPT ![s] = "parse"]
    /\ UNCHANGED <<fsVars, archive_path_set, path_ok, queue, workerVars,
                   last_customer_url,
                   stopVars, m_running, m_list, m_dir, m_kunde, histVars,
                   scanHistVars>>
    /\ UNCHANGED w_cleanup
    /\ UNCHANGED unitVars
    /\ UNCHANGED m_stopped
    /\ UNCHANGED clientVars
    /\ UNCHANGED guiVars

\* kunde = None; if kundendaten: json.loads, Kunde(...); an exception ends
\* the scan in the outer except
M_Parse(s) ==
    /\ m_pc[s] = "parse"
    /\ IF ParseRaises(m_kundendaten[s])
       THEN /\ m_pc' = [m_pc EXCEPT ![s] = AfterScanError]
            /\ m_kunde' = [m_kunde EXCEPT ![s] = NoKunde]
            /\ m_list' = [m_list EXCEPT ![s] = <<>>]
            /\ m_dir' = [m_dir EXCEPT ![s] = 0]
       ELSE /\ m_pc' = [m_pc EXCEPT ![s] = "rename"]
            /\ m_kunde' = [m_kunde EXCEPT ![s] = ParsedKunde(m_kundendaten[s])]
            /\ UNCHANGED <<m_list, m_dir>>
    /\ UNCHANGED <<fsVars, cfgVars, queue, workerVars, last_customer_url,
                   stopVars, m_running, m_kundendaten, histVars,
                   scanHistVars>>
    /\ UNCHANGED w_cleanup
    /\ UNCHANGED unitVars
    /\ UNCHANGED m_stopped
    /\ UNCHANGED clientVars
    /\ UNCHANGED guiVars
    /\ UNCHANGED provVars

\* a claim that does not depend on the ready marker still being there
RenameSucceeds_NotAtomic(d) == path_ok /\ loc[d] = "watch"

\* os.rename(marker_file_path, processing_marker_path) succeeds
RenameSucceeds(d) == path_ok /\ loc[d] = "watch" /\ ready[d]

\* a put that is not skipped when os.rename raised
AfterRename_AlwaysPut(ok) == "put"

\* where run() goes after os.rename: on to the put, or, from the except
\* OSError block, to the next entry
AfterRename(ok) == IF ok THEN "put" ELSE "scan"

\* try: os.rename(...)  except OSError: log and go on with the next entry;
\* the rename raises when the marker is not there or the system refuses it
M_Rename(s) ==
    /\ m_pc[s] = "rename"
    /\ \E os_ok \in BOOLEAN :
         LET ok == os_ok /\ RenameSucceeds(m_dir[s]) IN
         /\ ~os_ok => os_faults > 0
         /\ os_faults' = IF os_ok THEN os_faults ELSE os_faults - 1
         /\ IF ok
            THEN /\ ready' = [ready EXCEPT ![m_dir[s]] = FALSE]
                 /\ inprog' = [inprog EXCEPT ![m_dir[s]] = TRUE]
                 /\ rename_log' =
                        [rename_log EXCEPT ![m_dir[s]] = Append(@, s)]
                 /\ UNCHANGED rename_failed
            ELSE /\ rename_failed' =
                        [rename_failed EXCEPT ![m_dir[s]] = @ \cup {s}]
                 /\ UNCHANGED <<ready, inprog, rename_log>>
         /\ m_pc' = [m_pc EXCEPT ![s] = AfterRename(ok)]
    /\ UNCHANGED <<loc, content, archive_path_set, path_ok, queue,
                   workerVars, last_customer_url, stopVars, m_running, m_list,
                   m_dir, m_kundendaten, m_kunde, m_stopped, histVars,
                   put_log>>
    /\ UNCHANGED w_cleanup
    /\ UNCHANGED unitVars
    /\ UNCHANGED clientVars
    /\ UNCHANGED guiVars
    /\ UNCHANGED provVars

\* self.upload_queue.put({"dir_path": full_dir_path, "kunde": kunde})
M_Put(s) ==
    /\ m_pc[s] = "put"
    /\ queue' = Append(queue, Job(m_dir[s], m_kunde[s]))
    /\ put_log' = [put_log EXCEPT ![m_dir[s]] = Append(@, s)]
    /\ put_from' = [put_from EXCEPT ![m_dir[s]] = m_kd_from[s]]
    /\ UNCHANGED m_kd_from
    /\ m_pc' = [m_pc EXCEPT ![s] = "scan"]
    /\ UNCHANGED <<fsVars, cfgVars, workerVars, last_customer_url, stopVars,
                   m_running, m_list, m_dir, m_kundendaten, m_kunde, histVars,
                   rename_log, rename_failed, m_stopped>>
    /\ UNCHANGED w_cleanup
    /\ UNCHANGED unitVars
    /\ UNCHANGED clientVars
    /\ UNCHANGED guiVars

\* after the scan: if self._is_running: go and wait for the interval
M_EndScan(s) ==
    /\ m_pc[s] = "endscan"
    /\ m_pc' = [m_pc EXCEPT ![s] = IF m_running[s] THEN "to_wait" ELSE "loop"]
    /\ UNCHANGED <<fsVars, cfgVars, queue, workerVars, last_customer_url,
                   stopVars, m_running, m_list, m_dir, m_kundendaten, m_kunde,
                   m_stopped, histVars, scanHistVars>>
    /\ UNCHANGED w_cleanup
    /\ UNCHANGED unitVars
    /\ UNCHANGED clientVars
    /\ UNCHANGED guiVars
    /\ UNCHANGED provVars

\* the positions of run() in which wakeAll() wakes the thread
StopWakes == {"paused", "wait"}

\* MonitorThread.stop on a started thread that has not ended:
\* self._is_running = False; self._wait_condition.wakeAll()
M_Stop(s) ==
    /\ ~m_stopped[s]
    /\ m_pc[s] # "exited"
    /\ m_stopped' = [m_stopped EXCEPT ![s] = TRUE]
    /\ m_running' = [m_running EXCEPT ![s] = FALSE]
    /\ m_pc' = [m_pc EXCEPT ![s] = IF @ \in StopWakes THEN "loop" ELSE @]
    /\ UNCHANGED <<fsVars, cfgVars, queue, workerVars, last_customer_url,
                   stopVars, m_list, m_dir, m_kundendaten, m_kunde, histVars,
                   scanHistVars>>
    /\ UNCHANGED w_cleanup
    /\ UNCHANGED unitVars
    /\ UNCHANGED clientVars
    /\ UNCHANGED guiVars
    /\ UNCHANGED provVars

\* the watch folder is created, or monitor_path is set to a directory
PathAppears ==
    /\ ~path_ok
    /\ path_ok' = TRUE
    /\ UNCHANGED <<fsVars, archive_path_set, os_faults, queue, workerVars,
                   last_customer_url, stopVars, monitorVars, histVars,
                   scanHistVars>>
    /\ UNCHANGED w_cleanup
    /\ UNCHANGED unitVars
    /\ UNCHANGED clientVars
    /\ UNCHANGED guiVars
    /\ UNCHANGED provVars

\* the scan loop that MainWindow.monitor_thread refers to
AppMonitor == 1

\* get_active_cloud_client(): the client named by selected_cloud_service
ActiveCloudClient(sel) == sel

\* on_settings_changed, the clients: when get_active_cloud_client()
\* differs from active_cloud_client both it and uploader_thread.client are
\* replaced
AfterSettingsChanged(sel, active, client) ==
    IF ActiveCloudClient(sel) # active
    THEN [active |-> ActiveCloudClient(sel), client |-> ActiveCloudClient(sel)]
    ELSE [active |-> active, client |-> client]

\* monitor_thread.wake_up(): wakeAll() wakes the scan loop only if it is
\* waiting
WokenUp(pc) ==
    [pc EXCEPT ![AppMonitor] =
        IF monitor_started /\ @ \in StopWakes THEN "loop" ELSE @]

\* SettingsDialog.save_settings: the settings are saved with the signal
\* blocked and settings_changed is emitted once, which runs
\* on_settings_changed
SettingsChanged ==
    /\ gui_pc = "run"
    /\ client_swaps > 0
    /\ client_swaps' = client_swaps - 1
    /\ \E sel \in Transports :
         LET a == AfterSettingsChanged(sel, active_cloud_client, w_client) IN
         /\ selected_cloud' = sel
         /\ active_cloud_client' = a.active
         /\ w_client' = a.client
    /\ m_cfg_seen' = [s \in Scanners |-> FALSE]
    /\ m_pc' = WokenUp(m_pc)
    /\ UNCHANGED <<fsVars, cfgVars, queue, workerVars, w_cleanup,
                   last_customer_url, link_client, is_connected,
                   monitor_path_set, monitor_started, gui_pc, start_requests,
                   stopVars, m_running, m_list, m_dir, m_kundendaten,
                   m_kunde, m_stopped, histVars, scanHistVars, provVars,
                   unitVars>>

\* update_status_light: the colour is set and
\* self.active_cloud_client = self.get_active_cloud_client()
UpdateStatusLight ==
    /\ gui_pc = "run"
    /\ active_cloud_client' = ActiveCloudClient(selected_cloud)
    /\ UNCHANGED <<fsVars, cfgVars, queue, workerVars, w_cleanup,
                   last_customer_url, clientVars, selected_cloud,
                   is_connected, monitor_path_set, monitor_started, gui_pc,
                   start_requests, m_cfg_seen, stopVars, monitorVars,
                   histVars, scanHistVars, provVars, unitVars>>

\* start_monitoring past the test for a running thread: the watcher is
\* started when monitor_path is set and db_client reports connected
StartsMonitor(path_set, conn) == path_set /\ conn["dropbox"]

\* self.monitor_thread = MonitorThread(..); self.monitor_thread.start():
\* the scan loop of the application is a new thread
NewMonitorThread(f, v) == [f EXCEPT ![AppMonitor] = v]

\* settings.py toggle_custom_api_connection with URL and token filled in:
\* the five saves run on_settings_changed; when the health request
\* succeeds custom_api_client.connect() is called, active_cloud_client and
\* uploader_thread.client are set to the custom client, and
\* update_status_light() sets active_cloud_client from the setting again
ToggleCustomApiConnection ==
    /\ gui_pc = "run"
    /\ \E healthy, conn_ok \in BOOLEAN :
         LET a == AfterSettingsChanged(selected_cloud, active_cloud_client,
                                       w_client) IN
         IF healthy
         THEN /\ is_connected' =
                     [is_connected EXCEPT !["custom"] = @ \/ conn_ok]
              /\ w_client' = "custom"
              /\ active_cloud_client' = ActiveCloudClient(selected_cloud)
         ELSE /\ active_cloud_client' = a.active
              /\ w_client' = a.client
              /\ UNCHANGED is_connected
    /\ m_cfg_seen' = [s \in Scanners |-> FALSE]
    /\ m_pc' = WokenUp(m_pc)
    /\ UNCHANGED <<fsVars, cfgVars, queue, workerVars, w_cleanup,
                   last_customer_url, link_client, client_swaps,
                   selected_cloud, monitor_path_set, monitor_started, gui_pc,
                   start_requests, stopVars, m_running, m_list, m_dir,
                   m_kundendaten, m_kunde, m_stopped, histVars, scanHistVars,
                   provVars, unitVars>>

\* start_monitoring from the monitoring button: nothing when the thread
\* runs; else the thread is started or not, and update_monitoring_status
\* ends in update_status_light
StartMonitoring ==
    /\ gui_pc = "run"
    /\ start_requests > 0
    /\ start_requests' = start_requests - 1
    /\ IF monitor_started
       THEN UNCHANGED <<monitor_started, active_cloud_client, monitorVars>>
       ELSE /\ monitor_started' = StartsMonitor(monitor_path_set, is_connected)
            /\ active_cloud_client' = ActiveCloudClient(selected_cloud)
            /\ IF StartsMonitor(monitor_path_set, is_connected)
               THEN /\ m_pc' = NewMonitorThread(m_pc, "init")
                    /\ m_running' = NewMonitorThread(m_running, FALSE)
                    /\ m_stopped' = NewMonitorThread(m_stopped, FALSE)
                    /\ m_list' = NewMonitorThread(m_list, <<>>)
                    /\ m_dir' = NewMonitorThread(m_dir, 0)
                    /\ m_kundendaten' =
                           NewMonitorThread(m_kundendaten, "unbound")
                    /\ m_kunde' = NewMonitorThread(m_kunde, NoKunde)
               ELSE UNCHANGED monitorVars
    /\ UNCHANGED <<fsVars, cfgVars, queue, workerVars, w_cleanup,
                   last_customer_url, clientVars, selected_cloud,
                   is_connected, monitor_path_set, gui_pc, m_cfg_seen,
                   stopVars, histVars, scanHistVars, provVars, unitVars>>

\* stop_monitoring: monitor_thread.stop() on a running thread,
\* self.monitor_thread = None, and update_monitoring_status(False)
StopMonitoring ==
    /\ gui_pc = "run"
    /\ monitor_started
    /\ monitor_started' = FALSE
    /\ m_running' = [m_running EXCEPT ![AppMonitor] = FALSE]
    /\ m_stopped' = [m_stopped EXCEPT ![AppMonitor] = TRUE]
    /\ m_pc' = WokenUp(m_pc)
    /\ active_cloud_client' = ActiveCloudClient(selected_cloud)
    /\ UNCHANGED <<fsVars, cfgVars, queue, workerVars, w_cleanup,
                   last_customer_url, clientVars, selected_cloud,
                   is_connected, monitor_path_set, gui_pc, start_requests,
                   m_cfg_seen, stopVars, m_list, m_dir, m_kundendaten,
                   m_kunde, histVars, scanHistVars, provVars, unitVars>>

\* settings.py toggle_dropbox_connection: a connected client is
\* disconnected, which deletes the refresh token (on_settings_changed runs)
\* and emits stop_monitoring; else the keys are saved and connect() is
\* called; the connection status signal runs update_status_light
ToggleDropboxConnection ==
    /\ gui_pc = "run"
    /\ LET a == AfterSettingsChanged(selected_cloud, active_cloud_client,
                                     w_client) IN
       w_client' = a.client
    /\ active_cloud_client' = ActiveCloudClient(selected_cloud)
    /\ m_cfg_seen' = [s \in Scanners |-> FALSE]
    /\ m_pc' = WokenUp(m_pc)
    /\ IF is_connected["dropbox"]
       THEN /\ is_connected' = [is_connected EXCEPT !["dropbox"] = FALSE]
            /\ monitor_started' = FALSE
            /\ m_running' = [m_running EXCEPT ![AppMonitor] =
                   IF monitor_started THEN FALSE ELSE @]
            /\ m_stopped' = [m_stopped EXCEPT ![AppMonitor] =
                   IF monitor_started THEN TRUE ELSE @]
       ELSE /\ \E conn_ok \in BOOLEAN :
                 is_connected' = [is_connected EXCEPT !["dropbox"] = conn_ok]
            /\ UNCHANGED <<monitor_started, m_running, m_stopped>>
    /\ UNCHANGED <<fsVars, cfgVars, queue, workerVars, w_cleanup,
                   last_customer_url, link_client, client_swaps,
                   selected_cloud, monitor_path_set, gui_pc, start_requests,
                   stopVars, m_list, m_dir, m_kundendaten, m_kunde, histVars,
                   scanHistVars, provVars, unitVars>>

\* auto_connect_and_start: with stored credentials the selected client
\* connects; when connect() returns True start_monitoring() is called; at
\* the end update_status_light()
AutoConnectAndStart ==
    /\ gui_pc = "start"
    /\ gui_pc' = "run"
    /\ \E conn_ok \in BOOLEAN :
         LET conn == [is_connected EXCEPT ![selected_cloud] = @ \/ conn_ok] IN
         /\ is_connected' = conn
         /\ monitor_started' =
                (conn_ok /\ StartsMonitor(monitor_path_set, conn))
    /\ active_cloud_client' = ActiveCloudClient(selected_cloud)
    /\ UNCHANGED <<fsVars, cfgVars, queue, workerVars, w_cleanup,
                   last_customer_url, clientVars, selected_cloud,
                   monitor_path_set, start_requests, m_cfg_seen, stopVars,
                   monitorVars, histVars, scanHistVars, provVars, unitVars>>

\* the handlers of the main window
GuiNext ==
    \/ AutoConnectAndStart \/ SettingsChanged \/ UpdateStatusLight
    \/ ToggleCustomApiConnection \/ ToggleDropboxConnection
    \/ StartMonitoring \/ StopMonitoring

\* the steps of the scan loops in S
MonitorNext(S) ==
    \/ PathAppears
    \/ \E s \in S :
         \/ M_Start(s) \/ M_Loop(s) \/ M_Wait(s) \/ M_Wake(s) \/ M_Next(s)
         \/ M_Read(s) \/ M_Parse(s) \/ M_Rename(s) \/ M_Put(s)
         \/ M_EndScan(s) \/ M_Stop(s)

(***************************************************************************)
(* Specifications                                                          *)
(***************************************************************************)
EmptyLog == [d \in Dirs |-> <<>>]

\* the worker holds the custom API client and the selected service stays
\* MainWindow after a start in which the selected client has connected
\* and monitoring was started
InitGui ==
    /\ selected_cloud = w_client
    /\ active_cloud_client = w_client
    /\ is_connected = [c \in Transports |-> TRUE]
    /\ monitor_path_set = TRUE
    /\ monitor_started = TRUE
    /\ gui_pc = "run"
    /\ start_requests = 0
    /\ m_cfg_seen = [s \in Scanners |-> TRUE]

InitClient ==
    /\ w_client = "custom"
    /\ client_swaps = 0
    /\ InitGui

InitWorker ==
    /\ w_pc = "init"
    /\ w_running = FALSE
    /\ w_item = Sentinel
    /\ w_local_dir = 0
    /\ w_kunde = NoKunde
    /\ w_share_link = NoLink
    /\ w_exc = NoExc
    /\ w_break = FALSE
    /\ w_cleanup = FALSE
    /\ last_customer_url = 0
    /\ link_client = "none"
    /\ stop_pc = "idle"
    /\ stops = 0
    /\ taken = <<>>
    /\ archive_log = EmptyLog
    /\ upload_log = <<>>
    /\ mail_log = <<>>
    /\ sms_log = <<>>

InitMonitor ==
    /\ m_pc = [s \in Scanners |-> "init"]
    /\ m_running = [s \in Scanners |-> FALSE]
    /\ m_list = [s \in Scanners |-> <<>>]
    /\ m_dir = [s \in Scanners |-> 0]
    /\ m_kundendaten = [s \in Scanners |-> "unbound"]
    /\ m_kunde = [s \in Scanners |-> NoKunde]
    /\ m_stopped = [s \in Scanners |-> FALSE]
    /\ put_log = EmptyLog
    /\ rename_log = EmptyLog
    /\ rename_failed = [d \in Dirs |-> {}]
    /\ m_kd_from = [s \in Scanners |-> 0]
    /\ put_from = [d \in Dirs |-> 0]

\* the buckets are empty and no directory named dir_name is archived
InitArchive ==
    /\ a_clock = 1
    /\ a_calls = 0
    /\ a_tree = [b \in ArchiveBuckets |-> [p \in ArchiveNames |-> NoEntry]]

\* no upload_directory call is under way
InitTransportIdle ==
    /\ t_kind = "custom"
    /\ t_files = <<>>
    /\ t_pc = "idle"
    /\ t_idx = 0
    /\ t_bytes = 0
    /\ t_ret = "none"
    /\ t_tell = 0
    /\ t_cursor = 0
    /\ t_chunks = <<>>
    /\ t_log = <<>>
    /\ t_future = <<>>
    /\ t_reg = <<>>
    /\ t_seen = {}
    /\ t_polled = FALSE
    /\ t_cur = <<>>
    /\ t_order = <<>>
    /\ p_elapsed = 0
    /\ p_reads = 0
    /\ p_final = 0
    /\ p_last = "none"
    /\ p_url = "unset"

InitUnits == InitArchive /\ InitTransportIdle

\* app.py: an empty queue, every directory of the watch folder ready
Init ==
    /\ InitWorker
    /\ InitMonitor
    /\ InitUnits
    /\ loc = [d \in Dirs |-> "watch"]
    /\ ready = [d \in Dirs |-> TRUE]
    /\ inprog = [d \in Dirs |-> FALSE]
    /\ content \in [Dirs -> MarkerContents]
    /\ archive_path_set \in BOOLEAN
    /\ path_ok \in BOOLEAN
    /\ os_faults = 0
    /\ InitClient
    /\ queue = <<>>

\* the pipeline of app.py: one MonitorThread and the UploaderThread
Next == WorkerNext \/ MonitorNext({1})

Spec == Init /\ [][Next]_vars

\* concurrent scans over the same watch folder, nothing taken off the queue
ScanNext == MonitorNext(Scanners)

ScanSpec == Init /\ [][ScanNext]_vars

\* one MonitorThread over a watch folder in which listing, reading and
\* renaming can fail, nothing taken off the queue, while settings are saved
InitWatcher ==
    /\ InitWorker
    /\ InitMonitor
    /\ InitUnits
    /\ loc = [d \in Dirs |-> "watch"]
    /\ ready = [d \in Dirs |-> TRUE]
    /\ inprog = [d \in Dirs |-> FALSE]
    /\ content \in [Dirs -> MarkerContents]
    /\ archive_path_set = TRUE
    /\ path_ok \in BOOLEAN
    /\ os_faults = MaxOsFaults
    /\ w_client = "custom"
    /\ client_swaps = MaxSwaps
    /\ InitGui
    /\ queue = <<>>
    /\ taken = <<>>
    /\ archive_log = EmptyLog
    /\ upload_log = <<>>
    /\ mail_log = <<>>
    /\ sms_log = <<>>

WatcherNext == MonitorNext({1}) \/ SettingsChanged

WatcherSpec == InitWatcher /\ [][WatcherNext]_vars

\* the steps of the thread that executes MonitorThread.run of scan loop s
MonitorThreadStep(s) ==
    \/ M_Start(s) \/ M_Loop(s) \/ M_Wait(s) \/ M_Wake(s) \/ M_Next(s)
    \/ M_Read(s) \/ M_Parse(s) \/ M_Rename(s) \/ M_Put(s) \/ M_EndScan(s)

\* the watcher thread is scheduled as long as it can take a step; its
\* waits end at the latest on their timeout
WatcherLiveSpec == WatcherSpec /\ WF_vars(MonitorThreadStep(AppMonitor))

\* MainWindow after __init__ has built the clients and the worker and
\* before auto_connect_and_start: no client connected, no watcher
InitMainWindow ==
    /\ InitWorker
    /\ InitMonitor
    /\ InitUnits
    /\ loc = [d \in Dirs |-> "watch"]
    /\ ready = [d \in Dirs |-> TRUE]
    /\ inprog = [d \in Dirs |-> FALSE]
    /\ content = [d \in Dirs |-> "empty"]
    /\ archive_path_set = TRUE
    /\ path_ok = TRUE
    /\ os_faults = 0
    /\ queue = <<>>
    /\ w_client \in Transports
    /\ client_swaps = MaxSwaps
    /\ selected_cloud = w_client
    /\ active_cloud_client = w_client
    /\ is_connected = [c \in Transports |-> FALSE]
    /\ monitor_path_set \in BOOLEAN
    /\ monitor_started = FALSE
    /\ gui_pc = "start"
    /\ start_requests = MaxStartRequests
    /\ m_cfg_seen = [s \in Scanners |-> TRUE]

GuiSpec == InitMainWindow /\ [][GuiNext]_vars

\* the queues the constructor of UploaderThread can be handed: empty, or
\* Jobs for distinct claimed directories, the directories numbered in the
\* order in which they were put
PreloadedQueues ==
    {q \in UNION {[1..n -> {Job(d, k) : d \in Dirs, k \in Kunden}] :
                    n \in 0..MaxPreload} :
        \A i \in DOMAIN q : q[i].dir_path = i}

InitPreloaded ==
    /\ InitWorker
    /\ InitMonitor
    /\ InitUnits
    /\ queue \in PreloadedQueues
    /\ loc = [d \in Dirs |-> "watch"]
    /\ ready = [d \in Dirs |->
                  ~(\E i \in DOMAIN queue : queue[i].dir_path = d)]
    /\ inprog = [d \in Dirs |-> ~ready[d]]
    /\ content = [d \in Dirs |-> "empty"]
    /\ archive_path_set \in BOOLEAN
    /\ path_ok = TRUE
    /\ os_faults = 0
    /\ InitClient

WorkerSpec == InitPreloaded /\ [][WorkerNext]_vars

\* the worker with a preloaded queue and either client, while the selected
\* cloud service is changed in the settings
InitSwap ==
    /\ InitWorker
    /\ InitMonitor
    /\ InitUnits
    /\ queue \in PreloadedQueues
    /\ loc = [d \in Dirs |-> "watch"]
    /\ ready = [d \in Dirs |->
                  ~(\E i \in DOMAIN queue : queue[i].dir_path = d)]
    /\ inprog = [d \in Dirs |-> ~ready[d]]
    /\ content = [d \in Dirs |-> "empty"]
    /\ archive_path_set = TRUE
    /\ path_ok = TRUE
    /\ os_faults = 0
    /\ w_client \in Transports
    /\ client_swaps = MaxSwaps
    /\ InitGui

SwapNext == WorkerNext \/ SettingsChanged

SwapSpec == InitSwap /\ [][SwapNext]_vars

\* the steps of the thread that executes run()
WorkerThreadStep ==
    \/ W_Start \/ W_Loop \/ W_Get \/ W_Check \/ W_Upload \/ W_Link
    \/ W_Notify \/ W_Archive \/ W_Except \/ W_Finally

\* the worker thread is scheduled as long as it can take a step (get()
\* blocks on an empty queue), and a stop() that has cleared the flag goes
\* on to its put
WorkerLiveSpec ==
    WorkerSpec /\ WF_vars(WorkerThreadStep) /\ WF_vars(Stop_Put)

\* the pipeline at rest: nothing queued, no thread started
InitPipelineIdle ==
    /\ InitWorker
    /\ InitMonitor
    /\ loc = [d \in Dirs |-> "watch"]
    /\ ready = [d \in Dirs |-> TRUE]
    /\ inprog = [d \in Dirs |-> FALSE]
    /\ content = [d \in Dirs |-> "empty"]
    /\ archive_path_set = TRUE
    /\ path_ok = TRUE
    /\ os_faults = 0
    /\ InitClient
    /\ queue = <<>>

\* archive_directory called again and again for directories of one name
\* archive_directory is called while nothing else runs
InitArchiveCalls == InitPipelineIdle /\ InitUnits

ArchiveSpec == InitArchiveCalls /\ [][ArchiveNext]_vars

\* upload_directory is called on a directory with some list of files
InitTransport ==
    /\ t_kind \in Transports
    /\ t_files \in FileLists
    /\ t_pc = "collect"
    /\ t_idx = 0
    /\ t_bytes = 0
    /\ t_ret = "none"
    /\ t_tell = 0
    /\ t_cursor = 0
    /\ t_chunks = <<>>
    /\ t_log = <<>>
    /\ t_future = <<>>
    /\ t_reg = <<>>
    /\ t_seen = {}
    /\ t_polled = FALSE
    /\ t_cur = <<>>
    /\ t_order = <<>>
    /\ p_elapsed = 0
    /\ p_reads = 0
    /\ p_final = 0
    /\ p_last = "none"
    /\ p_url = "unset"

\* one upload_directory call of either transport
\* one upload_directory call while nothing else runs
InitTransportCall == InitPipelineIdle /\ InitArchive /\ InitTransport

TransportSpec == InitTransportCall /\ [][TransportNext]_vars

\* the sizes in bytes of the files in PoolSpec: an empty file and two sizes
\* whose sums meet a FloatShortPairs entry
PoolFileSizes == {0, 21, 29}

\* the lists of file sizes of the directories handed to the custom transport
PoolFileLists ==
    UNION {[1..n -> PoolFileSizes] : n \in 0..MaxPoolFiles}

\* CustomApiClient.upload_directory is called while nothing else runs
InitPoolCall ==
    /\ InitPipelineIdle
    /\ InitArchive
    /\ t_kind = "custom"
    /\ t_files \in PoolFileLists
    /\ t_pc = "collect"
    /\ t_idx = 0
    /\ t_bytes = 0
    /\ t_ret = "none"
    /\ t_tell = 0
    /\ t_cursor = 0
    /\ t_chunks = <<>>
    /\ t_log = <<>>
    /\ t_future = <<>>
    /\ t_reg = <<>>
    /\ t_seen = {}
    /\ t_polled = FALSE
    /\ t_cur = <<>>
    /\ t_order = <<>>
    /\ p_elapsed = 0
    /\ p_reads = 0
    /\ p_final = 0
    /\ p_last = "none"
    /\ p_url = "unset"

\* the steps of one CustomApiClient.upload_directory call and of the
\* threads of its executor
PoolNext ==
    \/ T_Collect \/ C_Init \/ C_Shutdown
    \/ C_StatusRead \/ C_Sleep \/ C_FinalRead
    \/ \E i \in FileIds :
         C_Start(i) \/ C_Requests(i) \/ C_Lock(i) \/ C_Emit(i) \/ C_Collect(i)

PoolSpec == InitPoolCall /\ [][PoolNext]_vars

\* a step of _wait_for_completion
PollStep == C_StatusRead \/ C_Sleep \/ C_FinalRead

\* the thread in _wait_for_completion goes on running: a status request
\* returns or raises within its timeout of 10 seconds, and time.sleep
\* returns
TransportLiveSpec == TransportSpec /\ WF_vars(PollStep)

\* the types of the state
TypeOK ==
    /\ loc \in [Dirs -> {"watch", "erfolg", "fehler"}]
    /\ ready \in [Dirs -> BOOLEAN]
    /\ inprog \in [Dirs -> BOOLEAN]
    /\ w_pc \in {"init", "loop", "get", "check", "upload", "link", "notify",
                 "archive", "except", "finally", "exited"}
    /\ w_local_dir \in Dirs \cup {0}
    /\ w_cleanup \in BOOLEAN
    /\ last_customer_url \in Dirs \cup {0}
    /\ stop_pc \in {"idle", "put"}
    /\ m_pc \in [Scanners -> {"init", "loop", "to_pause", "paused", "scan",
                              "read", "parse", "rename", "put", "endscan",
                              "to_wait", "wait", "exited"}]
    /\ m_stopped \in [Scanners -> BOOLEAN]
    /\ rename_failed \in [Dirs -> SUBSET Scanners]

(***************************************************************************)
(* Properties                                                              *)
(***************************************************************************)
\* the number of Jobs for directory d on the queue
QueuedJobs(d) ==
    Cardinality({i \in DOMAIN queue :
                    ~queue[i].sentinel /\ queue[i].dir_path = d})

\* C1: in every interleaving of the scans, at most one of them renames the
\* ready marker of a directory, and only that scan puts a Job for the
\* directory on the queue, once.
C1_EnqueuedAtMostOnce ==
    \A d \in Dirs :
        /\ Len(rename_log[d]) <= 1
        /\ Len(put_log[d]) <= 1
        /\ \A i \in DOMAIN put_log[d] : rename_log[d] = <<put_log[d][i]>>
        /\ QueuedJobs(d) <= 1

\* two scans went for the same directory: one has renamed the marker and
\* put the Job, the other stands at its os.rename, which will fail
C1_Witness ==
    \E d \in Dirs : \E s1, s2 \in Scanners :
        /\ s1 # s2
        /\ rename_log[d] = <<s1>>
        /\ put_log[d] = <<s1>>
        /\ m_pc[s2] = "rename"
        /\ m_dir[s2] = d

\* every Job on the queue belongs to a directory whose ready marker is gone
\* and whose in-progress marker exists
C6_QueuedIsClaimed ==
    \A i \in DOMAIN queue :
        ~queue[i].sentinel =>
            /\ ~ready[queue[i].dir_path]
            /\ inprog[queue[i].dir_path]

\* a put is the step of a scan whose own rename succeeded
C6_PutAfterRename ==
    \A s \in Scanners :
        m_pc[s] = "put" =>
            /\ ~ready[m_dir[s]]
            /\ inprog[m_dir[s]]
            /\ rename_log[m_dir[s]] = <<s>>

\* the step of scan s in which its os.rename fails
C6_RenameFails(s) ==
    /\ m_pc[s] = "rename"
    /\ m_pc'[s] # "rename"
    /\ ~(loc[m_dir[s]] = "watch" /\ ready[m_dir[s]])

\* C6: a directory is put on the queue only after its ready marker was
\* renamed to the in-progress marker, so for every Job on the queue the ready
\* marker is gone and the in-progress marker exists; a failing rename leaves
\* the markers and the queue as they are and the scan goes on to the next
\* entry without a put.
C6_MarkerStateAroundClaim ==
    /\ [](C6_QueuedIsClaimed /\ C6_PutAfterRename)
    /\ [][\A s \in Scanners :
             C6_RenameFails(s) =>
                 /\ ready' = ready
                 /\ inprog' = inprog
                 /\ queue' = queue
                 /\ m_pc'[s] = "scan"]_vars

\* a Job is on the queue for a claimed directory while another scan, which
\* saw the ready marker before the claim, stands at its failing os.rename
C6_Witness ==
    \E d \in Dirs : \E s \in Scanners :
        /\ QueuedJobs(d) = 1
        /\ ~ready[d]
        /\ inprog[d]
        /\ m_pc[s] = "rename"
        /\ m_dir[s] = d
        /\ rename_log[d] # <<s>>

\* run() stands between two Jobs, or has ended
WorkerBetweenJobs == w_pc \in {"loop", "get", "exited"}

\* C2: every Job that run() took off the queue went through
\* archive_directory exactly once; none is dequeued and then dropped, also
\* when stop() is called while Jobs are queued or as get() returns.
C2_NoJobLostOrDuplicated ==
    WorkerBetweenJobs =>
        \A i \in DOMAIN taken :
            ~taken[i].sentinel =>
                /\ Len(archive_log[taken[i].dir_path]) = 1
                /\ \A j \in DOMAIN taken :
                       taken[j] = taken[i] => j = i

\* run() is done with the Job of directory d
JobFinished(d) ==
    /\ w_local_dir = d
    /\ w_pc = "finally"

\* the transport upload of the Job in hand, that of directory d, failed
UploadFailed(d) ==
    /\ w_local_dir = d
    /\ Len(upload_log) = 1
    /\ upload_log[1].ret # "true"

\* the transport upload of the Job in hand, that of directory d, succeeded
UploadSucceeded(d) ==
    /\ w_local_dir = d
    /\ Len(upload_log) = 1
    /\ upload_log[1].ret = "true"

\* the failure mails and the success mails of the Job in hand
FailureMails ==
    {i \in DOMAIN mail_log : mail_log[i].kind = "failure"}
SuccessMails ==
    {i \in DOMAIN mail_log : mail_log[i].kind = "success"}

\* the failure path was taken for the Job in hand, that of directory d: one archive_directory call,
\* into the failure bucket, and one failure mail
FailurePathTaken(d) ==
    /\ Len(archive_log[d]) = 1
    /\ archive_log[d][1].bucket = "fehler"
    /\ loc[d] = IF archive_log[d][1].moved THEN "fehler" ELSE "watch"
    /\ Cardinality(FailureMails) = 1

\* the success path was taken for the Job in hand, that of directory d: one archive_directory call,
\* into the success bucket, and no failure mail
SuccessPathTaken(d) ==
    /\ Len(archive_log[d]) = 1
    /\ archive_log[d][1].bucket = "erfolg"
    /\ loc[d] = IF archive_log[d][1].moved THEN "erfolg" ELSE "watch"
    /\ FailureMails = {}

\* what holds of the worker in every state
C3_State ==
    /\ w_pc = "exited" => stops > 0
    /\ \A d \in Dirs :
           JobFinished(d) /\ UploadFailed(d) => FailurePathTaken(d)

\* what holds of every step of the worker
C3_Step ==
    /\ w_pc = "except" => w_pc' \in {"except", "finally"}
    /\ (w_pc = "finally" /\ ~w_break) => w_pc' \in {"finally", "loop"}
    /\ (w_pc = "loop" /\ w_running) => w_pc' \in {"loop", "get"}
    /\ w_pc' = "exited" => (w_pc = "exited" \/ ~w_running \/ w_break)
    /\ (~w_break /\ w_break') => (w_item.sentinel \/ ~w_running)
    /\ (w_running /\ ~w_running') => stops' = stops + 1

\* C3: a failing Job never stops the worker: after a failed transport upload
\* archive_directory is called for the failure bucket (the directory is
\* there when the move was made), the failure mail is sent, run() goes on
\* to its finally block and back to the head of its loop, and it leaves the
\* loop only after stop().
C3_FailingJobNeverStopsWorker ==
    [](C3_State) /\ [][C3_Step]_vars

\* the second Job of the queue has been processed after the first one, a
\* Job without customer, went to the failure bucket, which only a failed
\* upload makes it do
C3_Witness ==
    \E d1, d2 \in Dirs :
        /\ d1 # d2
        /\ Len(taken) = 2
        /\ taken[1] = Job(d1, NoKunde)
        /\ archive_log[d1] = <<[bucket |-> "fehler", moved |-> TRUE]>>
        /\ loc[d1] = "fehler"
        /\ JobFinished(d2)
        /\ archive_log[d2] # <<>>
        /\ stops = 0

\* C7: when the upload succeeded and get_shareable_link returned no link,
\* the directory goes to the success bucket and neither a success nor a
\* failure notification is sent.
C7_NoLinkStillSucceeds ==
    \A d \in Dirs :
        (JobFinished(d) /\ UploadSucceeded(d) /\ w_share_link = NoLink) =>
            /\ SuccessPathTaken(d)
            /\ mail_log = <<>>
            /\ sms_log = <<>>

\* a Job with a customer and an email address, uploaded without a link, is
\* in the success bucket
C7_Witness ==
    \E d \in Dirs :
        /\ JobFinished(d)
        /\ UploadSucceeded(d)
        /\ w_share_link = NoLink
        /\ w_kunde.present
        /\ w_kunde.email # ""
        /\ loc[d] = "erfolg"

\* a success notification of the Job in hand failed (returned failure or
\* raised)
NotifierFailed ==
    \/ \E i \in SuccessMails : mail_log[i].outcome # "sent"
    \/ \E i \in DOMAIN sms_log : sms_log[i].outcome # "sent"

\* C8: after a successful upload a failing success email or success SMS
\* (returning failure or raising) leaves the Job a success: success bucket,
\* no failure notification.
C8_NotifierFailureKeepsOutcome ==
    \A d \in Dirs :
        (JobFinished(d) /\ UploadSucceeded(d) /\ NotifierFailed) =>
            SuccessPathTaken(d)

\* archive_directory could not move directory d into the success bucket
SuccessMoveFailed(d) ==
    /\ archive_path_set
    /\ \E i \in DOMAIN archive_log[d] :
           archive_log[d][i].bucket = "erfolg" /\ ~archive_log[d][i].moved

AbortedByHttp(d) ==
    /\ UploadFailed(d)
    /\ upload_log[1].cause # NoExc
    /\ upload_log[1].cause[1] = "HTTP"

\* text t names the HTTP status and the body of cause c
CarriesCause(t, c) ==
    /\ \E i \in DOMAIN t : t[i] = c[2]
    /\ \E i \in DOMAIN t : t[i] = c[3]

\* C10: when the upload is aborted by a non-200 response, the error text
\* handed to send_upload_failure_email contains that HTTP status and body.
C10_FailureMailCarriesCause ==
    \A d \in Dirs :
        (JobFinished(d) /\ AbortedByHttp(d)) =>
            /\ FailureMails # {}
            /\ \A i \in FailureMails :
                   CarriesCause(mail_log[i].text, upload_log[1].cause)

\* the scan loop has finished a scan without being stopped and waits for
\* the next interval
ScanCompleted == m_pc[1] = "wait"

\* the Jobs put for directory d carry a customer / carry none
EnqueuedWithKunde(d) ==
    /\ put_log[d] = <<1>>
    /\ \A i \in DOMAIN queue :
           (~queue[i].sentinel /\ queue[i].dir_path = d) =>
               queue[i].kunde.present
    /\ \A i \in DOMAIN taken :
           (~taken[i].sentinel /\ taken[i].dir_path = d) =>
               taken[i].kunde.present
EnqueuedWithoutKunde(d) ==
    /\ put_log[d] = <<1>>
    /\ \A i \in DOMAIN queue :
           (~queue[i].sentinel /\ queue[i].dir_path = d) =>
               ~queue[i].kunde.present
    /\ \A i \in DOMAIN taken :
           (~taken[i].sentinel /\ taken[i].dir_path = d) =>
               ~taken[i].kunde.present

\* C4: with valid JSON customer metadata in every ready marker, one scan
\* claims each directory and enqueues it with the parsed customer; after the
\* worker cycle of a Job whose upload and link resolution succeeded the
\* directory is in the success bucket and the success notification was
\* invoked exactly once.
C4_EndToEndSuccess ==
    \A d \in Dirs :
        /\ (ScanCompleted /\ \A e \in Dirs : content[e] = "valid") =>
               /\ ~ready[d]
               /\ rename_log[d] = <<1>>
               /\ EnqueuedWithKunde(d)
        /\ (content[d] = "valid" /\ JobFinished(d) /\ UploadSucceeded(d)
              /\ w_share_link # NoLink /\ archive_path_set
              /\ archive_log[d] # <<>> /\ archive_log[d][1].moved) =>
               /\ loc[d] = "erfolg"
               /\ Cardinality(SuccessMails) = 1
               /\ FailureMails = {}

\* C5: a ready marker whose contents cannot be parsed as a customer record
\* (invalid JSON, missing fields) is still renamed by the scan, and its
\* directory enqueued with customer = nil.
C5_UnparseableStillEnqueued ==
    \A d \in Dirs :
        (ScanCompleted /\ content[d] \in {"invalid", "partial"}
           /\ \A e \in Dirs : content[e] \in {"invalid", "partial", "empty"}) =>
            /\ ~ready[d]
            /\ inprog[d] \/ loc[d] # "watch"
            /\ EnqueuedWithoutKunde(d)

\* run() has left the finally block of an iteration in which it processed a
\* Job
JobIterationOver ==
    /\ w_local_dir # 0
    /\ w_pc \in {"loop", "exited"}

\* C11: for every item processed as a Job the cleanup has run when the
\* finally block is left, before the loop continues or exits: both progress
\* bars reset, the waiting status emitted and task_done() called, also when
\* stop() was requested while the Job was being processed.
C11_CleanupAlwaysRuns ==
    JobIterationOver => w_cleanup

\* the item run() is processing as a Job is a Job
SentinelNeverAJob ==
    w_pc \in {"upload", "link", "notify", "archive", "except"} =>
        /\ ~w_item.sentinel
        /\ w_local_dir = w_item.dir_path
        /\ w_local_dir \in Dirs

\* a sentinel is the last item run() takes, and run() is then on its way out
NothingAfterSentinel ==
    \A i \in DOMAIN taken :
        taken[i].sentinel =>
            /\ i = Len(taken)
            /\ w_pc \in {"check", "finally", "exited"}

\* the worker is blocked in get() on an empty queue
IdleInGet == w_pc = "get" /\ queue = <<>>

\* run() has ended and the one sentinel it took was the last item it took
ExitedBySentinel ==
    w_pc = "exited" =>
        /\ taken # <<>>
        /\ taken[Len(taken)] = Sentinel
        /\ Cardinality({i \in DOMAIN taken : taken[i].sentinel}) = 1

\* a call of stop() has returned
StopReturned == stops > 0 /\ stop_pc = "idle"

\* C12: a sentinel is never processed as a Job and nothing is taken after
\* it; a worker that was blocked in get() on an empty queue leaves its loop
\* only by taking exactly one sentinel; and once stop() has returned run()
\* ends, whether stop() ran before, during or after the start of run().
C12_IdleWorkerStops ==
    /\ [](SentinelNeverAJob /\ NothingAfterSentinel)
    /\ [](IdleInGet => []ExitedBySentinel)
    /\ (StopReturned ~> w_pc = "exited")

\* run() has ended on the sentinel alone: stop() cleared the flag before
\* run() set it, and the queue never held a Job
C12_Witness ==
    /\ w_pc = "exited"
    /\ taken = <<Sentinel>>
    /\ queue = <<>>
    /\ w_running

\* the positions of run() inside the sequence of a Job
Processing == {"upload", "link", "notify", "archive", "except"}

\* a Job that reaches the finally block has been uploaded once and handed
\* to archive_directory once
C13_State ==
    (w_pc = "finally" /\ w_local_dir # 0) =>
        /\ Len(upload_log) = 1
        /\ Len(archive_log[w_local_dir]) = 1

\* the sequence of a Job is walked in its order and left only through the
\* archive step of the try block or of the except block
C13_Step ==
    /\ w_pc = "upload" => w_pc' \in {"upload", "link", "except"}
    /\ w_pc = "link" => w_pc' \in {"link", "notify"}
    /\ w_pc = "notify" => w_pc' \in {"notify", "archive", "except"}
    /\ w_pc = "archive" => w_pc' \in {"archive", "finally"}
    /\ w_pc = "except" => w_pc' \in {"except", "finally"}
    /\ w_pc \in Processing =>
           /\ w_local_dir' = w_local_dir
           /\ w_kunde' = w_kunde

\* C13: a stop() called while a Job is being processed does not interrupt
\* it: the Job goes through upload, link resolution, notification and
\* archive (or, failing, the archive of the except block) before run()
\* reaches its finally block and the end of its loop.
C13_BusyWorkerFinishesJob ==
    [](C13_State) /\ [][C13_Step]_vars

\* run() has ended at the head of its loop, not by a break, after a Job
\* that was uploaded and archived while the flag was already cleared
C13_Witness ==
    /\ w_pc = "exited"
    /\ ~w_break
    /\ ~w_cleanup
    /\ w_local_dir # 0
    /\ UploadSucceeded(w_local_dir)
    /\ Len(archive_log[w_local_dir]) = 1
    /\ archive_log[w_local_dir][1].bucket = "erfolg"

\* sequence p is a prefix of sequence q
IsPrefix(p, q) ==
    /\ Len(p) <= Len(q)
    /\ SubSeq(q, 1, Len(p)) = p

\* the Job in hand is the item taken last, every item taken before it is a
\* Job whose archive step is over, and the Job in hand has not been
\* archived before its own archive step
C14_State ==
    w_pc \in Processing =>
        /\ taken # <<>>
        /\ taken[Len(taken)] = Job(w_local_dir, w_kunde)
        /\ \A i \in 1..(Len(taken) - 1) :
               /\ ~taken[i].sentinel
               /\ Len(archive_log[taken[i].dir_path]) = 1
        /\ w_pc \in {"upload", "link", "notify"} =>
               archive_log[w_local_dir] = <<>>

\* the items taken so far followed by the items still queued are the items
\* in the order of their puts: a step takes the head of the queue or puts
\* at its tail
C14_Step ==
    /\ IsPrefix(taken, taken')
    /\ Len(taken') <= Len(taken) + 1
    /\ IsPrefix(taken \o queue, taken' \o queue')

\* C14: Jobs are processed in the order in which they were put on the
\* queue and one at a time: the upload of a Job starts only after the
\* archive step of every Job dequeued before it.
C14_FifoOneAtATime ==
    [](C14_State) /\ [][C14_Step]_vars

\* the second Job of the queue is being uploaded, the first one is archived
C14_Witness ==
    /\ w_pc = "upload"
    /\ Len(taken) = 2
    /\ ~taken[1].sentinel
    /\ taken[1].dir_path # w_local_dir
    /\ Len(archive_log[taken[1].dir_path]) = 1

\* the names of bucket b at which a directory lies
Archived(tree, b) == {p \in ArchiveNames : tree[b][p].owner # 0}

\* the directory of call k lies in tree t
PlacedBy(t, k) ==
    \E b \in ArchiveBuckets, p \in ArchiveNames :
        t[b][p].owner = k \/ t[b][p].inner = k

\* C15: archive_directory never overwrites or modifies an archived
\* directory: whatever the clock second, a call leaves every directory
\* archived before exactly as it was, and puts its own directory, when it
\* moves it, at a name of the bucket that was free.
C15_NeverTouchesArchived ==
    [][a_calls' = a_calls + 1 =>
         /\ \A b \in ArchiveBuckets :
                \A p \in Archived(a_tree, b) : a_tree'[b][p] = a_tree[b][p]
         /\ PlacedBy(a_tree', a_calls') =>
                \E b \in ArchiveBuckets :
                    \E p \in ArchiveNames \ Archived(a_tree, b) :
                        a_tree'[b][p].owner = a_calls']_vars

\* C16: without a configured archive_path, archive_directory leaves the
\* directory and its in-progress marker where they are, and the Job reports
\* its nominal outcome: the success path after a successful upload, the
\* failure path with the failure mail after a failed one.
C16_UnsetArchiveKeepsOutcome ==
    \A d \in Dirs :
        (JobFinished(d) /\ ~archive_path_set) =>
            /\ loc[d] = "watch"
            /\ inprog[d]
            /\ ~ready[d]
            /\ UploadSucceeded(d) => SuccessPathTaken(d)
            /\ UploadFailed(d) => FailurePathTaken(d)

\* C17: the directory-level percentages emitted during one upload_directory
\* call never decrease and lie in 0..100, for both transports and every
\* list of file sizes, zero-length files included.
C17_ProgressMonotone ==
    \A i \in DOMAIN t_log :
        /\ t_log[i][1] \in 0..100
        /\ \A j \in DOMAIN t_log : i < j => t_log[i][1] <= t_log[j][1]

\* a Dropbox call has gone through an empty file and a file of several
\* chunks, emitting a percentage for each request
C17_Witness ==
    /\ t_kind = "dropbox"
    /\ t_ret = "true"
    /\ \E i, j \in FileIds : t_files[i] = 0 /\ t_files[j] > CHUNK_SIZE
    /\ Len(t_log) >= 3

\* the upload_progress_total signal emitted last
LastProgress == t_log[Len(t_log)]

\* C18: after a successful upload_directory call on a directory of total
\* size totalBytes > 0 the directory-level progress emitted last is
\* (100, totalBytes, totalBytes), whatever the sizes and the order of the
\* files.
C18_FinalProgressIsFull ==
    (t_ret = "true" /\ TotalSize(t_files) > 0) =>
        /\ t_log # <<>>
        /\ LastProgress = <<100, TotalSize(t_files), TotalSize(t_files)>>

\* the chunks sent sum up to n bytes
RECURSIVE ChunkBytes(_)
ChunkBytes(chunks) ==
    IF chunks = <<>> THEN 0
    ELSE Head(chunks).size + ChunkBytes(Tail(chunks))

\* ceil(size / CHUNK_SIZE)
CeilChunks(size) == (size + CHUNK_SIZE - 1) \div CHUNK_SIZE

\* the chunks sent so far lie one behind the other from offset 0, each of
\* CHUNK_SIZE bytes
C19_WhileSending ==
    (t_kind = "dropbox" /\ t_pc = "append") =>
        /\ t_files[t_idx] > CHUNK_SIZE
        /\ \A k \in DOMAIN t_chunks :
               /\ t_chunks[k].size = CHUNK_SIZE
               /\ t_chunks[k].offset = (k - 1) * CHUNK_SIZE
        /\ t_tell = Len(t_chunks) * CHUNK_SIZE
        /\ t_tell < t_files[t_idx]

\* the file sent last went in a session: its chunks lie one behind the
\* other from offset 0, all but the last of CHUNK_SIZE bytes, the last of
\* 1..CHUNK_SIZE bytes, together the file, in ceil(size / CHUNK_SIZE)
\* requests
C19_WhenSent ==
    (t_kind = "dropbox" /\ t_pc \in {"file", "done"} /\ t_chunks # <<>>
       /\ t_ret # "false") =>
        LET size == t_files[t_idx - 1]
            n == Len(t_chunks) IN
        /\ size > CHUNK_SIZE
        /\ \A k \in 1..n : t_chunks[k].offset = (k - 1) * CHUNK_SIZE
        /\ \A k \in 1..(n - 1) : t_chunks[k].size = CHUNK_SIZE
        /\ t_chunks[n].size \in 1..CHUNK_SIZE
        /\ ChunkBytes(t_chunks) = size
        /\ n = CeilChunks(size)

\* C19: a file larger than the chunk size is sent in chunks in file order
\* whose sizes sum to the file size, every chunk but the last of exactly
\* the chunk size, in ceil(size / chunkSize) requests.
C19_ChunksCoverFile ==
    C19_WhileSending /\ C19_WhenSent

\* a file of an exact multiple of the chunk size and a file with a rest
\* have both been sent in sessions
C19_Witness ==
    /\ t_kind = "dropbox"
    /\ t_ret = "true"
    /\ Len(t_files) = 2
    /\ t_files[1] = 2 * CHUNK_SIZE
    /\ t_files[2] = 2 * CHUNK_SIZE + 1
    /\ Len(t_chunks) = 3

\* the files whose blob PUT was accepted and whose registration was refused
RegistrationFailed == {i \in DOMAIN t_reg : t_reg[i] = "failed"}

\* C20: in the direct-blob transport, once the registration of a file has
\* failed after its blob PUT succeeded, the session is never polled for
\* completion, upload_directory returns failure, and run() goes from that
\* return value to its except block.
C20_RegistrationFailureFailsJob ==
    (t_kind = "custom" /\ RegistrationFailed # {}) =>
        /\ ~t_polled
        /\ t_pc # "poll"
        /\ t_ret # "true"
        /\ t_pc = "done" =>
               /\ t_ret = "false"
               /\ AfterUpload(UploadException([ret |-> t_ret, exc |-> NoExc]))
                      = "except"

\* upload_directory has returned after one file was registered and the
\* registration of another was refused
C20_Witness ==
    /\ t_kind = "custom"
    /\ t_pc = "done"
    /\ t_ret = "false"
    /\ RegistrationFailed # {}
    /\ \E i \in DOMAIN t_reg : t_reg[i] = "ok" /\ t_future[i] = "ok"

\* C21: in the direct-blob transport, once the first failure of a file has
\* been observed by upload_directory, no further file begins its
\* presigned-url / PUT / register sequence.
C21_NoStartAfterFailure ==
    [][(t_kind = "custom" /\ t_pc = "raised") =>
           \A i \in DOMAIN t_future :
               (t_future[i] = "queued") => (t_future'[i] = "queued")]_vars

\* C22: in the direct-blob transport at most max_parallel_uploads files are
\* in the hands of a thread of the executor at any moment, so at most that
\* many are inside their presigned-url / PUT / register sequence.
C22_AtMostThreeInFlight ==
    t_kind = "custom" =>
        /\ Cardinality(InPool) <= max_parallel_uploads
        /\ Cardinality(InRequests) <= max_parallel_uploads

\* a directory of more files than threads: three files are inside their
\* request sequence and a fourth waits
C22_Witness ==
    /\ t_kind = "custom"
    /\ t_pc = "pool"
    /\ Cardinality(InRequests) = max_parallel_uploads
    /\ \E i \in DOMAIN t_future : t_future[i] = "queued"

\* C23: the customer record of the Job in hand is the one upload_directory
\* receives, and the one the direct-blob transport sends as the metadata
\* of its session-init request.
C23_CustomerHandedToTransport ==
    \A k \in DOMAIN upload_log :
        /\ upload_log[k].kunde = w_kunde
        /\ upload_log[k].metadata # NotSent =>
               upload_log[k].metadata = SessionMetadata(w_kunde)

\* an SMS request was made for the Job in hand
SmsRequested == \E i \in DOMAIN sms_log : sms_log[i].attempted

\* C24: after a successful upload with a link, once the notification step
\* is over, a customer with an email has been sent the success email, and
\* an SMS has been attempted exactly when the customer has a phone number,
\* also when the customer has no email.
C24_NotifierCoversEmailAndPhone ==
    (w_pc = "archive" /\ w_share_link # NoLink /\ w_kunde.present) =>
        /\ w_kunde.email # "" => SuccessMails # {}
        /\ w_kunde.phone # "" <=> SmsRequested

\* a step of the watcher from the head of its loop, and a step of a
\* watcher that pauses: without a watch folder a running watcher goes to
\* the wait and nowhere else, from the wait it only comes back to the head
\* of the loop and puts nothing, and with the folder there it lists it
C25_Step ==
    /\ (m_pc[1] = "loop" /\ m_pc'[1] # "loop" /\ m_running[1] /\ ~path_ok) =>
           m_pc'[1] = "to_pause"
    /\ m_pc[1] \in {"to_pause", "paused"} =>
           /\ queue' = queue
           /\ m_pc'[1] \in {"to_pause", "paused", "loop"}
    /\ (m_pc[1] = "loop" /\ m_pc'[1] # "loop" /\ m_running[1] /\ path_ok) =>
           m_pc'[1] \in {"scan", "endscan"}

\* C25: a missing or unconfigured watch path pauses the watcher without
\* ending it: the loop waits and re-checks, enqueues nothing meanwhile, and
\* scans in the first iteration that finds the path again.
C25_MissingPathPauses ==
    [][C25_Step]_vars

\* the watch folder went away after a Job was put and while another
\* directory was still waiting for its scan: the watcher is in its pause
C25_Witness ==
    /\ m_pc[1] = "paused"
    /\ ~path_ok
    /\ ~m_stopped[1]
    /\ \E d \in Dirs : put_log[d] # <<>>
    /\ \E d \in Dirs : loc[d] = "watch" /\ ready[d]

\* a failed rename leaves the directory and the queue as they were and the
\* scan goes on; the scan takes up every listed directory with a marker,
\* whatever happened to it in earlier scans
C26_Step ==
    /\ (m_pc[1] = "rename" /\ m_pc'[1] \notin {"rename", "put"}) =>
           /\ m_pc'[1] = "scan"
           /\ ready' = ready
           /\ queue' = queue
    /\ (m_pc[1] = "scan" /\ m_pc'[1] # "scan" /\ m_running[1]
          /\ m_list[1] # <<>> /\ MarkerFound(Head(m_list[1]))) =>
           /\ m_pc'[1] = "read"
           /\ m_dir'[1] = Head(m_list[1])

\* C26: no error inside a watcher iteration ends the watcher loop: the loop
\* ends only after stop(), a failed rename is followed by the next entry,
\* and the directory is taken up again by the next scan that lists it.
C26_ErrorsNeverEndLoop ==
    /\ [](m_pc[1] = "exited" => m_stopped[1])
    /\ [][C26_Step]_vars

\* every injected error has struck, the rename of a directory failed in
\* one scan and a later scan claimed it and put its Job; the loop goes on
C26_Witness ==
    /\ os_faults = 0
    /\ ~m_stopped[1]
    /\ m_pc[1] \notin {"init", "exited"}
    /\ \E d \in Dirs :
           /\ 1 \in rename_failed[d]
           /\ rename_log[d] = <<1>>
           /\ put_log[d] = <<1>>

\* C27: once stop() has been called on a started watcher, its running flag
\* is false for good and the thread is not sleeping in a wait, in every
\* interleaving of stop() with run().
C27_StopEndsLoopPromptly ==
    \A s \in Scanners :
        m_stopped[s] => /\ ~m_running[s]
                        /\ m_pc[s] \notin {"paused", "wait"}

\* C28: the upload and the link resolution of one Job are performed by the
\* same transport object, also when a settings change swaps the worker's
\* client while that Job is being processed.
C28_OneTransportPerJob ==
    (link_client # "none" /\ upload_log # <<>>) =>
        link_client = upload_log[Len(upload_log)].client

\* the bytes of the first k files that went through the progress block
RECURSIVE CountedBytes(_)
CountedBytes(k) ==
    IF k = 0 THEN 0 ELSE t_files[t_order[k]] + CountedBytes(k - 1)

\* one emission per file that went through the progress block, in the
\* order of the blocks: each carries the bytes of the registered files
\* counted so far and the total
EmissionsFollowCounter ==
    /\ Len(t_log) = Len(t_order)
    /\ \A k \in DOMAIN t_log :
           /\ t_reg[t_order[k]] = "ok"
           /\ t_log[k][2] = CountedBytes(k)
           /\ t_log[k][3] = TotalSize(t_files)

\* the statement as made: every percentage is floor(100 * bytesDone /
\* total) and bytesDone grows strictly from one emission to the next
C29_ExactAndStrict ==
    t_kind = "custom" =>
        /\ EmissionsFollowCounter
        /\ \A k \in DOMAIN t_log :
               t_log[k][1] = (100 * t_log[k][2]) \div t_log[k][3]
        /\ \A k \in 1..(Len(t_log) - 1) : t_log[k][2] < t_log[k + 1][2]

\* C29: in the direct-blob transport the byte counter and the emissions
\* form one critical section: in every interleaving each emitted directory
\* progress carries the sum of the sizes of the files counted so far, its
\* percentage is floor(100 * bytesDone / total) or, by the rounding of the
\* floating-point product, one less, and bytesDone never decreases from
\* one emission to the next and grows with every non-empty file.
C29_ProgressCriticalSection ==
    t_kind = "custom" =>
        /\ EmissionsFollowCounter
        /\ \A k \in DOMAIN t_log :
               LET exact == (100 * t_log[k][2]) \div t_log[k][3] IN
               t_log[k][1] \in {exact, exact - 1} \cap (0..100)
        /\ \A k \in 1..(Len(t_log) - 1) :
               /\ t_log[k][2] <= t_log[k + 1][2]
               /\ t_files[t_order[k + 1]] > 0 => t_log[k][2] < t_log[k + 1][2]

\* two files have gone through the progress block, not in the order in
\* which they were submitted; a third is inside it and a fourth waits for
\* the lock
C29_Witness ==
    /\ t_kind = "custom"
    /\ Len(t_order) >= 2
    /\ t_order[1] > t_order[2]
    /\ LockHolders # {}
    /\ \E i \in DOMAIN t_future : t_future[i] = "registered"

\* the number of status reads the loop can make: elapsed starts at 0 and
\* grows by poll_interval after every read that does not return
MaxLoopReads == (max_wait_time + poll_interval - 1) \div poll_interval

\* the poll has been entered and has not returned
InPoll == t_kind = "custom" /\ t_pc \in {"poll", "sleep"}

\* the poll has returned
PollReturned == t_kind = "custom" /\ t_pc = "done" /\ t_polled

\* the reads are bounded and one poll_interval apart, a read that reports
\* completed is the last one, and the read after the loop is made once,
\* on the timeout only
C30_BoundedReads ==
    /\ p_reads <= MaxLoopReads
    /\ p_final <= 1
    /\ (t_kind = "custom" /\ t_pc = "poll") =>
           p_elapsed = poll_interval * p_reads
    /\ (t_kind = "custom" /\ t_pc = "sleep") =>
           /\ p_reads >= 1
           /\ p_elapsed = poll_interval * (p_reads - 1)
    /\ InPoll => p_final = 0 /\ p_last # "completed"
    /\ PollReturned =>
           \/ /\ p_final = 0
              /\ p_last = "completed"
              /\ p_reads >= 1
              /\ p_elapsed = poll_interval * (p_reads - 1)
              /\ p_elapsed < max_wait_time
           \/ /\ p_final = 1
              /\ p_reads = MaxLoopReads
              /\ p_elapsed >= max_wait_time

\* a loop read that reports completed returns at once, any other loop read
\* is followed by the sleep, and the read made on the timeout returns
C30_Step ==
    /\ (p_reads' # p_reads /\ p_last' = "completed") => t_pc' = "done"
    /\ (p_reads' # p_reads /\ p_last' # "completed") => t_pc' = "sleep"
    /\ p_final' # p_final =>
           /\ p_elapsed >= max_wait_time
           /\ p_reads' = p_reads
           /\ t_pc' = "done"
    /\ (t_pc = "poll" /\ t_pc' = "done") =>
           (p_final' = p_final + 1) = (p_elapsed >= max_wait_time)

\* C30: the completion poll of the direct-blob transport always
\* terminates: it reads the session status a bounded number of times, one
\* poll_interval apart, returns as soon as a read reports status completed,
\* and after the timeout makes exactly one more status read before it
\* returns.
C30_PollTerminates ==
    /\ []C30_BoundedReads
    /\ [][C30_Step]_vars
    /\ (InPoll ~> PollReturned)

\* the poll has run into its timeout: every read of the loop was answered
\* without status completed, and the one read after the loop was made
C30_Witness ==
    /\ PollReturned
    /\ p_reads = MaxLoopReads
    /\ p_elapsed = max_wait_time
    /\ p_final = 1
    /\ p_last = "pending"
    /\ p_url = "None"

\* the step in which the wait of scan loop s runs out: it was waiting and
\* goes back to the head of its loop, and neither stop() nor wake_up() was
\* called in the step
WaitTimesOut(s) ==
    /\ m_pc[s] \in StopWakes
    /\ m_pc'[s] = "loop"
    /\ m_stopped'[s] = m_stopped[s]
    /\ client_swaps' = client_swaps

\* C31: a configuration change takes effect without waiting out the sleep
\* interval: in every interleaving, once on_settings_changed has called
\* wake_up(), the watcher starts its next iteration with the new settings
\* without first sleeping a full scan interval or the full pause, also when
\* the change arrives during a scan or just before the wait begins; so a
\* wait that runs out belongs to a scan loop that has read the settings
\* last saved.
C31_ChangeTakesEffectAtOnce ==
    [][WaitTimesOut(AppMonitor) => m_cfg_seen[AppMonitor]]_vars

\* the success email of the Job in hand has been sent
SuccessMailSent ==
    \E i \in SuccessMails : mail_log[i].outcome = "sent"

\* archive_directory(.., "fehler") was called for directory d
SentToFailureBucket(d) ==
    \E k \in DOMAIN archive_log[d] : archive_log[d][k].bucket = "fehler"

\* C32: a Job never triggers both a success notification and a failure
\* notification: once the success email of a Job has been sent, the
\* directory of that Job is not moved to the failure bucket and
\* send_upload_failure_email is not called for it.
C32_NeverBothNotifications ==
    SuccessMailSent =>
        /\ FailureMails = {}
        /\ \A d \in Dirs : w_local_dir = d => ~SentToFailureBucket(d)

\* C33: the share link used for the success notification of a Job was
\* produced by the upload of that same Job: over any sequence of Jobs
\* through the direct-blob transport, Jobs without uploadable files
\* included, get_shareable_link never returns the customer URL of an
\* earlier Job.
C33_LinkOfThisJob ==
    (link_client = "custom" /\ w_share_link # NoLink) =>
        w_share_link.url = w_local_dir

\* C34: the customer attached to an enqueued Job is either nil or was
\* parsed from the marker file of the directory of that Job: within one
\* scan the customer data read for one directory is never attached to the
\* Job of another directory, also when reading the marker of a later
\* directory fails.
C34_KundeOfOwnMarker ==
    \A i \in DOMAIN queue :
        (~queue[i].sentinel /\ queue[i].kunde.present) =>
            put_from[queue[i].dir_path] = queue[i].dir_path

\* the marker of a directory could not be read, kundendaten still held
\* what was read from another directory, and the Job of the directory is
\* on the queue
C34_Witness ==
    \E i \in DOMAIN queue :
        /\ ~queue[i].sentinel
        /\ put_from[queue[i].dir_path] \in Dirs \ {queue[i].dir_path}
        /\ ~queue[i].kunde.present

\* directory d is enqueued at some time, unless the watcher is stopped or
\* the watch folder is missing
EventuallyEnqueued(d) ==
    <>(put_log[d] # <<>> \/ m_stopped[AppMonitor] \/ ~path_ok)

\* C35: one problematic directory does not starve the others: if the
\* watcher keeps running and a ready directory stays in the watch folder
\* with a marker that can be parsed, it is eventually claimed and enqueued,
\* also when another ready directory listed before it has marker contents
\* that cannot be turned into a customer record on every scan.
C35_NoStarvation ==
    \A d \in Dirs : ~ParseRaises(content[d]) => EventuallyEnqueued(d)

\* C36: the direct-blob transport reports a successful upload only if the
\* server reported the session as completed: upload_directory returns
\* true after the file transfers only when some status read returned
\* status completed, never after a poll that timed out without completion
\* (a read that reports completed is the last read of the poll).
C36_TrueOnlyWhenCompleted ==
    (PollReturned /\ t_ret = "true") => p_last = "completed"

\* C37: the transport of the worker always matches the configured one:
\* after any sequence of settings saves, connection tests in the settings
\* dialog and status-light updates, once the handlers have run,
\* UploaderThread.client is the client object selected by the setting
\* selected_cloud_service.
C37_WorkerUsesSelectedClient ==
    w_client = ActiveCloudClient(selected_cloud)

\* start_monitoring is called in this step with no watcher running and a
\* watch path configured: from the monitoring button, or from
\* auto_connect_and_start after the selected client has connected
StartMonitoringCalled ==
    /\ ~monitor_started
    /\ monitor_path_set
    /\ \/ start_requests' # start_requests
       \/ gui_pc = "start" /\ gui_pc' = "run" /\ is_connected'[selected_cloud]

\* C38: monitoring starts exactly when the selected transport is usable:
\* with a watch path configured, start_monitoring starts the watcher if
\* and only if the currently selected transport reports connected, so a
\* successful automatic connect of the selected transport is always
\* followed by a running watcher.
C38_StartsIffSelectedConnected ==
    [][StartMonitoringCalled =>
           (monitor_started' <=> is_connected'[selected_cloud])]_vars

\* the direct-blob call was made for a directory whose uploadable files all
\* have size 0, and every file was uploaded and registered
AllZeroRegistered ==
    /\ t_kind = "custom"
    /\ t_files # <<>>
    /\ TotalSize(t_files) = 0
    /\ DOMAIN t_reg = FileIds
    /\ \A i \in FileIds : t_reg[i] = "ok"

\* C39: in the direct-blob transport a directory whose uploadable files
\* all have size 0 is handled without error: when every file has been
\* uploaded and registered, no progress computation has raised on the
\* total size of 0 and the call does not return false.
C39_ZeroSizeHandled ==
    AllZeroRegistered =>
        /\ \A i \in FileIds : t_future[i] # "raised"
        /\ t_ret # "false"

=============================================================================
